---------------------------- MODULE Spec2Model ----------------------------
(***************************************************************************)
(* Model of the ATS scoring core (core/services/scoring_service.py,        *)
(* nlp_service.py, gemini_service.py) and of the settings it reads         *)
(* (core/models.py, core/forms.py).                                        *)
(*                                                                         *)
(* Number representation (Python floats become fixed-point integers):      *)
(*   - weights, thresholds, cosine similarities and dimension scores are   *)
(*     in thousandths (0.35 is 350, 1.0 is Unit);                          *)
(*   - scores on the 0-100 scale are in ten-thousandths of a point         *)
(*     (62.0 is 620000, 100.0 is 100 * Pt), so that the composite          *)
(*     sum(weight * score) * 100 is exactly sum(W * S) with no division;   *)
(*   - round(x, 2) and round(x, 3) round half to even, Python's rule;      *)
(*   - a division inside a scorer rounds down to the next thousandth.      *)
(***************************************************************************)
EXTENDS Integers, Sequences, FiniteSets, TLC

Unit == 10 * 100          \* 1.0 for weights, similarities, dimension scores
Pt   == 10 * Unit         \* one point of the 0-100 scale

Min(a, b) == IF a <= b THEN a ELSE b
Max(a, b) == IF a >= b THEN a ELSE b
Abs(a)    == IF a < 0 THEN -a ELSE a

\* round(x / step) * step, halves to even: Python's round() on an exact value
RoundTo(x, step) ==
    LET q == x \div step
        r == 2 * (x % step)
    IN  IF r < step THEN q * step
        ELSE IF r > step THEN (q + 1) * step
        ELSE IF q % 2 = 0 THEN q * step ELSE (q + 1) * step

\* round(score, 2) of a 0-100 score
Round2(x) == RoundTo(x, Pt \div 100)

\* round(v, 3) of a similarity or dimension score: the identity on thousandths
Round3(x) == RoundTo(x, 1)

(***************************************************************************)
(* JSON / Python values of the reviewer's payload.                         *)
(***************************************************************************)
Absent   == [t |-> "absent"]                 \* the key is not in the dict
Null     == [t |-> "null"]                   \* JSON null, Python None
Str(s)   == [t |-> "str", v |-> s]
Num(n)   == [t |-> "num", v |-> n]           \* on the scale of its field
Bool(b)  == [t |-> "bool", v |-> b]
List(n)  == [t |-> "list", v |-> n]          \* a JSON array of n elements

None == [t |-> "none"]                        \* Python None for a whole object

\* Python truthiness, bool(x); dict.get gives None for an absent key
Truthy(j) ==
    CASE j.t = "absent" -> FALSE
      [] j.t = "null"   -> FALSE
      [] j.t = "none"   -> FALSE
      [] j.t = "str"    -> j.v # ""
      [] j.t = "num"    -> j.v # 0
      [] j.t = "bool"   -> j.v
      [] j.t = "list"   -> j.v > 0
      [] OTHER          -> TRUE

\* x is None, for the value of dict.get(key)
IsNone(j) == j.t \in {"absent", "null", "none"}

\* int, float (and bool, an int in Python) support min/max against a float
IsNumeric(j) == j.t \in {"num", "bool"}

NumericValue(j, one) == IF j.t = "bool" THEN (IF j.v THEN one ELSE 0) ELSE j.v


(***************************************************************************)
(* Settings store: AdminSettings (core/models.py) and the settings form    *)
(* (core/forms.py).                                                        *)
(***************************************************************************)
Config(we, ws, wx, zt, ct, cap) ==
    [weight_education |-> we, weight_skills |-> ws, weight_experience |-> wx,
     profession_zero_threshold |-> zt, profession_cap_threshold |-> ct,
     partial_credit_cap |-> cap]

\* the field defaults of AdminSettings, which get_settings() creates
DefaultSettings == Config(350, 450, 200, 200, 400, 30 * Pt)

\* AdminSettings.get_settings: get_or_create(id=1) on a store that holds the row
get_settings(row) == row

\* MinValueValidator / MaxValueValidator of the model fields
FieldValidators(c) ==
    /\ \A w \in {c.weight_education, c.weight_skills, c.weight_experience}:
          0 <= w /\ w <= Unit
    /\ \A th \in {c.profession_zero_threshold, c.profession_cap_threshold}:
          0 <= th /\ th <= Unit
    /\ 0 <= c.partial_credit_cap /\ c.partial_credit_cap <= 100 * Pt

\* AdminSettingsForm.clean: abs(weight_sum - 1.0) > 0.01 is rejected
FormClean(c) ==
    ~ (Abs(c.weight_education + c.weight_skills + c.weight_experience - Unit)
         > Unit \div 100)

FormAccepts(c) == FieldValidators(c) /\ FormClean(c)

\* configurations an administrator may post to the settings form
PostedConfigs ==
    { DefaultSettings,
      \* weights summing to 1.005, cap threshold below the zero threshold,
      \* a cap whose widening passes 100
      Config(350, 450, 205, 400, 200, 80 * Pt),
      \* rejected by the form: weights sum to 0.9 (and zero partial credit)
      Config(300, 400, 200, 200, 400, 0) }

\* configurations an administrator may save on the admin site
AdminSitePosts ==
    { \* weights sum to 0.9
      Config(300, 400, 200, 200, 400, 0),
      \* rejected by the validators: a weight above 1
      Config(1200, 0, 0, 200, 400, 30 * Pt) }

(***************************************************************************)
(* NLPService scorers (core/services/nlp_service.py).  The embedding       *)
(* cosine is an input: any value in [-1, 1], used unclamped.               *)
(***************************************************************************)
level_hierarchy ==
    [unknown |-> 0, diploma |-> 1, bachelor |-> 2, master |-> 3, doctoral |-> 4]

\* compute_similarity: 0.0 if either text is empty, else the cosine
compute_similarity(text1, text2, cosine) ==
    IF text1 = "" \/ text2 = "" THEN 0 ELSE cosine

\* compute_profession_similarity: neutral 0.5 if either document is empty
compute_profession_similarity(resume_text, jd_text, cosine) ==
    IF resume_text = "" \/ jd_text = "" THEN Unit \div 2
    ELSE compute_similarity(resume_text, jd_text, cosine)

\* mutant of compute_education_similarity: a resume above the requirement
\* gets the floor of one just below it
compute_education_similarity_LowTopFloor(resume_edu, jd_edu, cosine) ==
    LET base_similarity ==
            IF resume_edu.normalized_text # "" /\ jd_edu.normalized_text # ""
            THEN cosine ELSE 0
        resume_rank == level_hierarchy[resume_edu.degree_level]
        jd_rank == level_hierarchy[jd_edu.degree_level]
        level_gap == resume_rank - jd_rank
        heuristic_score ==
            IF level_gap >= 1 THEN 600
            ELSE IF level_gap = 0 THEN 800
            ELSE IF level_gap = -1 THEN 600
            ELSE 400
    IN  IF jd_rank = 0
        THEN Min(Unit, base_similarity + 150 * resume_rank)
        ELSE Min(Unit, Max(heuristic_score, base_similarity))

\* compute_education_similarity on two education feature records
compute_education_similarity(resume_edu, jd_edu, cosine) ==
    LET base_similarity ==
            IF resume_edu.normalized_text # "" /\ jd_edu.normalized_text # ""
            THEN compute_similarity(resume_edu.normalized_text,
                                    jd_edu.normalized_text, cosine)
            ELSE 0
        resume_rank == level_hierarchy[resume_edu.degree_level]
        jd_rank == level_hierarchy[jd_edu.degree_level]
        level_gap == resume_rank - jd_rank
        heuristic_score ==
            IF level_gap >= 1 THEN 900
            ELSE IF level_gap = 0 THEN 800
            ELSE IF level_gap = -1 THEN 600
            ELSE 400
    IN  IF jd_rank = 0
        THEN Min(Unit, base_similarity + 150 * resume_rank)
        ELSE Min(Unit, Max(heuristic_score, base_similarity))

Range(seq) == { seq[i] : i \in 1..Len(seq) }

\* the names of seq that are in names, in the order of seq
Keep(seq, names) ==
    LET Kept(x) == x \in names IN SelectSeq(seq, Kept)

Reverse(seq) == [i \in 1..Len(seq) |-> seq[Len(seq) + 1 - i]]

\* list(a_set): the order in which a set of strings is iterated depends on
\* the hash seed of the process; two of the possible orders
list_of_set(seq, names, order) ==
    IF order = "backward" THEN Reverse(Keep(seq, names)) ELSE Keep(seq, names)

\* mutant of compute_skills_similarity: the two early returns left out
compute_skills_similarity_NoEarlyReturn(resume_skills, jd_skills, cosine, order) ==
    LET resume_skills_set == Range(resume_skills)
        jd_skills_set == Range(jd_skills)
        matched == resume_skills_set \cap jd_skills_set
        exact_match_score ==
            IF jd_skills_set = {} THEN 0
            ELSE (Unit * Cardinality(matched)) \div Cardinality(jd_skills_set)
    IN  [score |-> Min(Unit, (85 * exact_match_score + 15 * cosine) \div 100),
         breakdown |->
            [matched |-> list_of_set(jd_skills, matched, order),
             missing |-> list_of_set(jd_skills, jd_skills_set \ resume_skills_set, order),
             extra |-> list_of_set(resume_skills, resume_skills_set \ jd_skills_set, order)]]

\* compute_skills_similarity: (score, breakdown); the skill lists hold
\* distinct lower-case canonical names, as extract_skills returns them
compute_skills_similarity(resume_skills, jd_skills, cosine, order) ==
    IF jd_skills = <<>>
    THEN [score |-> Unit,
          breakdown |-> [matched |-> <<>>, missing |-> <<>>,
                         extra |-> resume_skills]]
    ELSE IF resume_skills = <<>>
    THEN [score |-> 0,
          breakdown |-> [matched |-> <<>>, missing |-> jd_skills,
                         extra |-> <<>>]]
    ELSE
      LET resume_skills_set == Range(resume_skills)
          jd_skills_set == Range(jd_skills)
          matched == resume_skills_set \cap jd_skills_set
          exact_match_score ==
              (Unit * Cardinality(matched)) \div Cardinality(jd_skills_set)
          \* ' '.join of a non-empty list of names: both texts are non-empty
          semantic_similarity ==
              compute_similarity("resume skills", "jd skills", cosine)
      IN  [score |-> Min(Unit, (85 * exact_match_score
                                  + 15 * semantic_similarity) \div 100),
           breakdown |->
              [matched |-> list_of_set(jd_skills, matched, order),
               missing |-> list_of_set(jd_skills, jd_skills_set \ resume_skills_set, order),
               extra |-> list_of_set(resume_skills, resume_skills_set \ jd_skills_set, order)]]

\* compute_experience_similarity on two experience feature records
\* (years in tenths of a year)
compute_experience_similarity(resume_exp, jd_exp, cosine) ==
    LET resume_years == resume_exp.years
        jd_years == jd_exp.years
        years_score ==
            IF jd_years > 0
            THEN Min(Unit, (Unit * resume_years) \div jd_years)
            ELSE Min(Unit, (Unit * resume_years) \div Max(10, resume_years + 20))
        semantic_score ==
            IF resume_exp.normalized_text # "" /\ jd_exp.normalized_text # ""
            THEN compute_similarity(resume_exp.normalized_text,
                                    jd_exp.normalized_text, cosine)
            ELSE 0
        title_overlap ==
            IF resume_exp.job_titles # {} /\ jd_exp.job_titles # {}
            THEN Min(Unit,
                     (Unit * Cardinality(resume_exp.job_titles \cap jd_exp.job_titles))
                        \div Max(1, Cardinality(jd_exp.job_titles)))
            ELSE 0
    IN  Min(Unit, (45 * years_score + 35 * semantic_score + 20 * title_overlap)
                     \div 100)


(***************************************************************************)
(* ScoringService.compute_match_score (core/services/scoring_service.py):  *)
(* the pieces of the decision engine, in the order of the code.            *)
(***************************************************************************)
mismatch_suggestion ==
    Str("This position requires experience in a different field. Consider applying to jobs that match your professional background.")

\* line 92
override_reason == Str("High skill overlap with JD")

\* line 202
aligned_reason == Str("AI reviewer confirmed the role aligns with your profile.")

\* line 209: mismatch_cap = 5.0
mismatch_cap == 50000

\* mutant of settings_used: each use reads the stored row again
settings_used_Reread(local, row) == row

\* line 35: settings is bound once; lines 52-118 and 231-233 read that object,
\* whatever happens to the stored row meanwhile
settings_used(local, row) == local

\* mutant of bert_scores_for_prompt: the local final score is left at zero
bert_scores_for_prompt_NoFinal(edu, skills, exper, final) ==
    [education |-> RoundTo(edu, 1), skills |-> RoundTo(skills, 1),
     experience |-> RoundTo(exper, 1), final |-> 0]

\* lines 123-128
bert_scores_for_prompt(edu, skills, exper, final) ==
    [education |-> Round3(edu), skills |-> Round3(skills),
     experience |-> Round3(exper), final |-> Round2(final)]

\* mutant of GateFires: the gate compares against the cap threshold
GateFires_CapThreshold(similarity, cfg) == similarity < cfg.profession_cap_threshold

\* line 52: profession_similarity < settings.profession_zero_threshold
GateFires(similarity, cfg) == similarity < cfg.profession_zero_threshold

\* lines 80-84: round(skill_overlap_ratio, 3), the ratio being 0.0 when the
\* posting has no skills
match_ratio_value(breakdown) ==
    LET matched_count == Len(breakdown.matched)
        missing_count == Len(breakdown.missing)
        jd_skill_total == matched_count + missing_count
        millionths ==
            IF jd_skill_total # 0
            THEN (Unit * Unit * matched_count) \div jd_skill_total ELSE 0
    IN  RoundTo(millionths, Unit) \div Unit

\* mutant of HighOverlap: the overlap must exceed one half
HighOverlap_Strict(breakdown) ==
    LET matched_count == Len(breakdown.matched)
        jd_skill_total == matched_count + Len(breakdown.missing)
    IN  jd_skill_total # 0 /\ 2 * matched_count > jd_skill_total

\* lines 86, 117: skill_overlap_ratio >= 0.5, decided on the exact ratio
\* mutant of HighOverlap: a posting without skills counts as fully matched
HighOverlap_EmptyIsFull(breakdown) ==
    LET matched_count == Len(breakdown.matched)
        jd_skill_total == matched_count + Len(breakdown.missing)
    IN  jd_skill_total = 0 \/ 2 * matched_count >= jd_skill_total

HighOverlap(breakdown) ==
    LET matched_count == Len(breakdown.matched)
        jd_skill_total == matched_count + Len(breakdown.missing)
    IN  jd_skill_total # 0 /\ 2 * matched_count >= jd_skill_total

\* mutant of CompositeScore: the education and skills weights are swapped
CompositeScore_SwappedWeights(cfg, edu, skills, exper) ==
    cfg.weight_skills * edu + cfg.weight_education * skills
      + cfg.weight_experience * exper

\* mutant of CompositeScore: the experience term is left out
CompositeScore_NoExperience(cfg, edu, skills, exper) ==
    cfg.weight_education * edu + cfg.weight_skills * skills

\* lines 101-107: raw_bert_score * 100
CompositeScore(cfg, edu, skills, exper) ==
    cfg.weight_education * edu + cfg.weight_skills * skills
      + cfg.weight_experience * exper

\* mutant of DynamicCap: a high overlap does not widen the cap
DynamicCap_NotWidened(cfg, breakdown) == cfg.partial_credit_cap

\* lines 116-118: dynamic_cap
DynamicCap(cfg, breakdown) ==
    IF HighOverlap(breakdown)
    THEN Min(100 * Pt, (cfg.partial_credit_cap * 15) \div 10)
    ELSE cfg.partial_credit_cap

\* lines 111-120: the gate zeroes, the cap threshold caps
CapApplies(mismatch, similarity, cfg) ==
    ~ mismatch /\ similarity < cfg.profession_cap_threshold

GatedScore(mismatch, similarity, cfg, breakdown, composite) ==
    IF mismatch THEN 0
    ELSE IF CapApplies(mismatch, similarity, cfg)
    THEN Min(composite, DynamicCap(cfg, breakdown))
    ELSE composite

\* _generate_default_suggestion (lines 269-300).  The missing skills are a
\* list made from a set; its first three are taken here in the posting's order.
JoinNames(names) ==
    IF Len(names) = 0 THEN ""
    ELSE IF Len(names) = 1 THEN names[1]
    ELSE IF Len(names) = 2 THEN names[1] \o ", " \o names[2]
    ELSE names[1] \o ", " \o names[2] \o ", " \o names[3]

JoinSentences(parts) ==
    IF Len(parts) = 1 THEN parts[1]
    ELSE IF Len(parts) = 2 THEN parts[1] \o ". " \o parts[2]
    ELSE parts[1] \o ". " \o parts[2] \o ". " \o parts[3]

generate_default_suggestion(missing_list, edu, exper) ==
    LET top_missing == SubSeq(missing_list, 1, Min(3, Len(missing_list)))
        skills_part ==
            IF Len(missing_list) > 0
            THEN << "Consider gaining experience in: " \o JoinNames(top_missing) >>
            ELSE << >>
        edu_part ==
            IF edu < 500
            THEN << "Consider pursuing additional certifications or degrees relevant to this role" >>
            ELSE << >>
        exp_part ==
            IF exper < 500
            THEN << "Highlight more relevant work experience or projects in your resume" >>
            ELSE << >>
        found == skills_part \o edu_part \o exp_part
        suggestions ==
            IF found = << >>
            THEN << "Your profile is a good match. Consider tailoring your resume to emphasize key achievements." >>
            ELSE found
    IN  Str(JoinSentences(suggestions) \o ".")

(***************************************************************************)
(* The external reviewer (core/services/gemini_service.py) and the         *)
(* correction it returns.                                                  *)
(***************************************************************************)
Payload(fs, pm, pr, rv, sg, others) ==
    [t |-> "dict", final_score |-> fs, profession_mismatch |-> pm,
     profession_reason |-> pr, review |-> rv, suggestion |-> sg,
     final_score_original |-> Absent,
     other_keys |-> others]    \* keys the engine never reads (reason, ..._score)

\* bool(gemini_correction): None and the empty dict are falsy
DictTruthy(gc) ==
    /\ gc.t = "dict"
    /\ \/ gc.other_keys
       \/ \E j \in {gc.final_score, gc.profession_mismatch, gc.profession_reason,
                    gc.review, gc.suggestion, gc.final_score_original}:
             j.t # "absent"

\* mutant of validate_match_scores: whatever parsed is returned
validate_match_scores_AnyJson(outcome, parsed) ==
    IF outcome \in {"object", "non_object"} THEN parsed ELSE None

\* validate_match_scores (lines 58-129): None unless the client is configured,
\* the call succeeds and the text parses to a JSON object; a parsed value
\* that is no object has no .get and ends in the except branch
validate_match_scores(outcome, parsed) ==
    IF outcome = "object" THEN parsed ELSE None

\* str.strip() and str.lower() on the strings the reviewer is modelled to send
strip(s) ==
    CASE s = " Yes " -> "Yes"
      [] s = " Quantify your impact. " -> "Quantify your impact."
      [] s = " Add a projects section. " -> "Add a projects section."
      [] s = "  " -> ""
      [] OTHER -> s

lower(s) ==
    CASE s = "Yes" -> "yes"
      [] s = "TRUE" -> "true"
      [] s = "False" -> "false"
      [] OTHER -> s

\* line 167: gemini_correction and 'final_score' in gemini_correction
CorrectionApplies(gc) == DictTruthy(gc) /\ gc.final_score.t # "absent"

\* mutant of ClampCorrection: no upper clamp
ClampCorrection_NoUpper(v) == Max(v, 0)

\* line 168: min(max(final_score, 0.0), 100.0)
ClampCorrection(v) == Min(Max(v, 0), 100 * Pt)

\* lines 172-175: the reviewer's flag as a boolean
ResolveFlag(flag) ==
    IF flag.t = "str" THEN lower(strip(flag.v)) \in {"true", "1", "yes"}
    ELSE Truthy(flag)

\* lines 170-176: ai_profession_flag_resolved (None when there is no flag)
AiFlagResolved(gc) ==
    IF CorrectionApplies(gc) /\ ~ IsNone(gc.profession_mismatch)
    THEN Bool(ResolveFlag(gc.profession_mismatch))
    ELSE Null

\* lines 160, 176: final_profession_mismatch
FinalMismatch(gc, initial_mismatch) ==
    IF AiFlagResolved(gc).t = "bool" THEN AiFlagResolved(gc).v ELSE initial_mismatch

\* lines 151-158, 167-169: the working final_score before the mismatch cap
WorkingScore(gc, initial_mismatch, bert_final) ==
    IF CorrectionApplies(gc)
    THEN ClampCorrection(NumericValue(gc.final_score, Pt))
    ELSE IF initial_mismatch THEN 0 ELSE bert_final

\* lines 209-214: the mismatch cap
MismatchCapApplies(mismatch, score) == mismatch /\ score > mismatch_cap

\* mutant of CappedFinalScore: the cap is not applied
CappedFinalScore_NoCap(mismatch, score) == score

CappedFinalScore(mismatch, score) ==
    IF MismatchCapApplies(mismatch, score) THEN mismatch_cap ELSE score

\* mutant of AuditCorrection: the original is read after the overwrite
AuditCorrection_AfterOverwrite(gc, mismatch, score) ==
    IF MismatchCapApplies(mismatch, score) /\ DictTruthy(gc)
    THEN [gc EXCEPT !.final_score_original = Num(mismatch_cap),
                    !.final_score = Num(mismatch_cap)]
    ELSE gc

\* lines 215-217: the audit fields written into the correction
AuditCorrection(gc, mismatch, score) ==
    IF MismatchCapApplies(mismatch, score) /\ DictTruthy(gc)
    THEN [gc EXCEPT !.final_score_original = Num(score),
                    !.final_score = Num(mismatch_cap)]
    ELSE gc

\* lines 177, 193-204: profession_reason
ResolveReason(gc, final_mismatch, initial_flagged, override) ==
    LET given ==
            IF CorrectionApplies(gc) /\ Truthy(gc.profession_reason)
            THEN gc.profession_reason ELSE Null
    IN  IF final_mismatch /\ ~ Truthy(given) THEN mismatch_suggestion
        ELSE IF ~ final_mismatch /\ given.t = "null" /\ initial_flagged
        THEN aligned_reason
        ELSE IF ~ final_mismatch /\ given.t = "null" /\ Truthy(override)
        THEN override
        ELSE given

\* == on two Python values
PyEq(a, b) == a.t = b.t /\ (a.t \in {"str", "num", "bool", "list"} => a.v = b.v)

\* lines 151-157, 184-189, 196-197, 206-207: suggestion_text
ResolveSuggestion(gc, initial_mismatch, final_mismatch, default_suggestion, reason) ==
    LET local == IF initial_mismatch THEN mismatch_suggestion ELSE default_suggestion
        corrected ==
            IF ~ CorrectionApplies(gc) THEN local
            ELSE IF Truthy(gc.review) THEN Str(strip(gc.review.v))
            ELSE IF gc.suggestion.t = "absent" THEN local
            ELSE gc.suggestion
        cleared ==
            IF ~ final_mismatch /\ PyEq(corrected, mismatch_suggestion)
            THEN default_suggestion ELSE corrected
    IN  IF final_mismatch /\ PyEq(cleared, default_suggestion)
        THEN (IF Truthy(reason) THEN reason ELSE mismatch_suggestion)
        ELSE cleared

\* line 240: tip_text.strip() if gemini_correction and tip_text else None
ImprovementTip(gc) ==
    IF CorrectionApplies(gc) /\ Truthy(gc.suggestion)
    THEN Str(strip(gc.suggestion.v)) ELSE Null

\* the exception compute_match_score raises on this correction, or "none":
\* line 168 compares the score with a float, lines 187 and 240 call .strip()
Raises(gc) ==
    IF ~ CorrectionApplies(gc) THEN "none"
    ELSE IF ~ IsNumeric(gc.final_score) THEN "TypeError"
    ELSE IF Truthy(gc.review) /\ gc.review.t # "str" THEN "AttributeError"
    ELSE IF Truthy(gc.suggestion) /\ gc.suggestion.t # "str" THEN "AttributeError"
    ELSE "none"

(***************************************************************************)
(* Inputs of a scoring call: document features, embedding cosines and the  *)
(* reviewer's behaviour.                                                   *)
(***************************************************************************)
\* the longest posting skill list
MaxJdSkills == 5

skill_names ==
    << "python", "sql", "docker", "aws", "react", "django", "linux", "git" >>

\* a skill no posting of the model asks for
extra_skill == "leadership"

JdSkillCounts == {0, 2, MaxJdSkills}

JdSkillLists == { SubSeq(skill_names, 1, n) : n \in JdSkillCounts }

\* how many of the posting's n skills a resume has: none, just under half,
\* at least half, all
MatchedCounts(n) == {0, n \div 2, (n + 1) \div 2, n}

ResumeSkillLists(jd_skills) ==
    { SubSeq(jd_skills, 1, m) : m \in MatchedCounts(Len(jd_skills)) }
      \cup { << extra_skill >> }

\* the iteration orders of a set that a process may have
HashOrders == {"forward", "backward"}

SkillsCosines == {600, 1000}

\* the two whole documents of a call; features below are those of non-empty
\* documents
Documents == { [resume_text |-> "resume", jd_text |-> "posting"] }

ProfessionCosines == {100, 300, 900}

Education(level, text) == [degree_level |-> level, normalized_text |-> text]

ResumeEducations == { Education("unknown", "coursework"), Education("bachelor", "bsc physics") }

JdEducations == { Education("unknown", "degree preferred"), Education("bachelor", "bachelor required") }

EducationCosines == {-500, 1000}

Experience(years, titles, text) ==
    [years |-> years, job_titles |-> titles, normalized_text |-> text]

\* (resume experience, posting experience, cosine)
ExperienceCases ==
    { << Experience(40, {"data analyst"}, ""),
         Experience(40, {"data analyst", "engineer", "manager", "architect"}, "4 years"),
         0 >>,
      << Experience(0, {}, "volunteering"), Experience(0, {}, "any background"), -1000 >>,
      << Experience(100, {"engineer"}, "10 years engineer"),
         Experience(50, {"engineer"}, "5 years engineer"), 1000 >> }

\* what the reviewer call can end in
ReviewerOutcomes == {"not_configured", "api_error", "bad_json", "non_object", "object"}

\* final_score values a reviewer sends (0-100 scale)
ReviewerScores == { Num(-10 * Pt), Num(3 * Pt), Num(72 * Pt), Num(724560), Num(150 * Pt) }

\* the dimension scores of a payload that has the keys the engine never reads
\* (education_score, skills_score, experience_score, reason)
reviewer_dimension_scores ==
    [education_score |-> 950, skills_score |-> 950, experience_score |-> 950]

\* profession_mismatch values sent with every score
ReviewerFlags == { Absent, Bool(TRUE), Bool(FALSE) }

\* profession_mismatch values of other JSON types
OtherFlags ==
    { Null, Str(" Yes "), Str("TRUE"), Str("1"), Str("no"), Str("False"), Str(""),
      Num(0), Num(1) }

ReviewerPayloads ==
    { Payload(s, f, Absent, Absent, Absent, TRUE) : s \in ReviewerScores, f \in ReviewerFlags }
    \cup
    { Payload(Num(72 * Pt), f, Absent, Absent, Absent, TRUE) : f \in OtherFlags }
    \cup
    { Payload(Num(72 * Pt), f, Str("Different field."), rv, sg, FALSE) :
        f \in {Bool(TRUE), Bool(FALSE)},
        rv \in {Absent, Str(" Quantify your impact. ")},
        sg \in {Absent, Null, Str(" Add a projects section. ")} }
    \cup
    { \* an empty object, and objects without a final_score
      Payload(Absent, Absent, Absent, Absent, Absent, FALSE),
      Payload(Absent, Bool(TRUE), Str("Different field."), Str("Quantify your impact."),
              Str("Add a projects section."), TRUE),
      \* a final_score that is no number
      Payload(Null, Bool(FALSE), Absent, Absent, Absent, TRUE),
      Payload(Str("72"), Bool(TRUE), Absent, Absent, Absent, TRUE),
      \* a review or a suggestion that is no string
      Payload(Num(72 * Pt), Bool(FALSE), Absent, List(2), Absent, FALSE),
      Payload(Num(72 * Pt), Bool(FALSE), Absent, Absent, Num(7), FALSE) }

\* what json.loads gives for each way the call ends (None: nothing parsed)
ParsedResponses(outcome) ==
    IF outcome = "object" THEN ReviewerPayloads
    ELSE IF outcome = "non_object" THEN { List(2) }
    ELSE { None }

\* the calls that reach the network
ApiOutcomes == ReviewerOutcomes \ {"not_configured"}

(***************************************************************************)
(* State: the stored settings row, the reviewer client, and one            *)
(* compute_match_score call with its local variables, position and         *)
(* outcome.                                                                *)
(***************************************************************************)
VARIABLES
    stored_settings,              \* the AdminSettings row (id = 1)
    client,                       \* GeminiService.client is set (an API key exists)
    settings,                     \* the call's local settings object, None outside a call
    pc,                           \* position of the scoring call
    profession_similarity,
    initial_profession_mismatch,
    initial_profession_flagged,
    profession_override_reason,
    education_score,
    skills_score,
    skills_breakdown,
    experience_score,
    bert_final_score,
    bert_baseline_final,
    capped,
    reviewer_calls,               \* arguments of each validate_match_scores call
    api_requests,                 \* generate_content requests sent by this call
    reviewer,                     \* how the reviewer call ended
    gemini_correction,
    result,                       \* the returned dict, None before the return
    raised,                       \* the exception that left the call, or "none"
    fn_args,                      \* the arguments of a function called on its own
    fn_result,                    \* its locals and what it returned
    rows,                         \* the ids of the stored AdminSettings rows
    last_id,                      \* the greatest id the table has given out
    workers                       \* where each save() or get_settings() call is

store_vars == << stored_settings, client >>

gate_vars == << profession_similarity, initial_profession_mismatch,
                initial_profession_flagged, profession_override_reason >>

dimension_vars == << education_score, skills_score, skills_breakdown, experience_score >>

composite_vars == << bert_final_score, bert_baseline_final, capped >>

request_vars == << reviewer_calls, api_requests >>

reviewer_vars == << reviewer, gemini_correction >>

outcome_vars == << result, raised >>

call_vars == << settings, pc, gate_vars, dimension_vars, composite_vars,
                request_vars, reviewer_vars, outcome_vars >>

function_vars == << fn_args, fn_result >>

table_vars == << rows, last_id, workers >>

vars == << store_vars, call_vars, function_vars, table_vars >>

empty_breakdown == [matched |-> <<>>, missing |-> <<>>, extra |-> <<>>, match_ratio_value |-> 0]

\* how many save() and get_settings() calls run side by side
MaxWorkers == 3

Workers == 1..MaxWorkers

\* no save() or get_settings() call is running
NoWorker == [w \in Workers |-> [at |-> "idle", pk |-> 0]]

\* the table after get_settings() has created the row with id 1
OneSettingsRow ==
    /\ rows = {1}
    /\ last_id = 1
    /\ workers = NoWorker

\* the locals of a call that has not started
FreshCall ==
    /\ settings = None
    /\ profession_similarity = 0
    /\ initial_profession_mismatch = FALSE
    /\ initial_profession_flagged = FALSE
    /\ profession_override_reason = Null
    /\ education_score = 0
    /\ skills_score = 0
    /\ skills_breakdown = empty_breakdown
    /\ experience_score = 0
    /\ bert_final_score = 0
    /\ bert_baseline_final = 0
    /\ capped = FALSE
    /\ reviewer_calls = << >>
    /\ api_requests = 0
    /\ reviewer = "not_called"
    /\ gemini_correction = None
    /\ result = None
    /\ raised = "none"

\* get_settings() has created the row with the field defaults;
\* GeminiService.__init__ has made a client if an API key is configured
Init ==
    /\ stored_settings = DefaultSettings
    /\ client \in BOOLEAN
    /\ pc = "idle"
    /\ FreshCall
    /\ OneSettingsRow
    /\ fn_args = None
    /\ fn_result = None

\* views.admin_settings (POST): the form saves the row only if it is valid.
\* A post may arrive while a scoring call is in flight.
admin_settings ==
    /\ \E posted \in PostedConfigs:
          stored_settings' = IF FormAccepts(posted) THEN posted ELSE stored_settings
    /\ UNCHANGED << client, call_vars, function_vars, table_vars >>

\* the admin site's change form of AdminSettings: a plain ModelForm, which
\* runs the field validators and nothing else
AdminSettingsAdmin ==
    /\ \E posted \in AdminSitePosts:
          stored_settings' = IF FieldValidators(posted) THEN posted ELSE stored_settings
    /\ UNCHANGED << client, call_vars, function_vars, table_vars >>

\* lines 34-59: settings object, profession similarity, gate check
GateCheck ==
    /\ pc = "idle"
    /\ settings' = get_settings(stored_settings)
    /\ \E doc \in Documents, cosine \in ProfessionCosines:
          LET similarity ==
                  compute_profession_similarity(doc.resume_text, doc.jd_text, cosine)
          IN  /\ profession_similarity' = similarity
              /\ initial_profession_mismatch' = GateFires(similarity, settings')
              /\ initial_profession_flagged' = GateFires(similarity, settings')
    /\ profession_override_reason' = Null
    /\ pc' = "education"
    /\ UNCHANGED << table_vars, function_vars, store_vars, dimension_vars, composite_vars, request_vars,
                    reviewer_vars, outcome_vars >>

\* lines 61-66
ScoreEducation ==
    /\ pc = "education"
    /\ \E resume_edu \in ResumeEducations, jd_edu \in JdEducations,
          cosine \in EducationCosines:
          education_score' = compute_education_similarity(resume_edu, jd_edu, cosine)
    /\ pc' = "skills"
    /\ UNCHANGED << table_vars, function_vars, store_vars, settings, gate_vars, skills_score, skills_breakdown,
                    experience_score, composite_vars, request_vars, reviewer_vars,
                    outcome_vars >>

\* lines 68-92: skills score, overlap ratio, overlap override
ScoreSkills ==
    /\ pc = "skills"
    /\ \E jd_skills \in JdSkillLists, cosine \in SkillsCosines, order \in HashOrders:
       \E resume_skills \in ResumeSkillLists(jd_skills):
          LET scored ==
                  compute_skills_similarity(resume_skills, jd_skills, cosine, order)
              override == initial_profession_mismatch /\ HighOverlap(scored.breakdown)
          IN  /\ skills_score' = scored.score
              /\ skills_breakdown' =
                    [matched |-> scored.breakdown.matched,
                     missing |-> scored.breakdown.missing,
                     extra |-> scored.breakdown.extra,
                     match_ratio_value |-> match_ratio_value(scored.breakdown)]
              /\ initial_profession_mismatch' =
                    IF override THEN FALSE ELSE initial_profession_mismatch
              /\ profession_override_reason' =
                    IF override THEN override_reason ELSE profession_override_reason
    /\ pc' = "experience"
    /\ UNCHANGED << table_vars, function_vars, store_vars, settings, profession_similarity,
                    initial_profession_flagged, education_score, experience_score,
                    composite_vars, request_vars, reviewer_vars, outcome_vars >>

\* lines 94-99
ScoreExperience ==
    /\ pc = "experience"
    /\ \E case \in ExperienceCases:
          experience_score' = compute_experience_similarity(case[1], case[2], case[3])
    /\ pc' = "composite"
    /\ UNCHANGED << table_vars, function_vars, store_vars, settings, gate_vars, education_score, skills_score,
                    skills_breakdown, composite_vars, request_vars, reviewer_vars,
                    outcome_vars >>

\* lines 101-121: weighted composite, gate zeroing, partial-credit cap
Composite ==
    /\ pc = "composite"
    /\ LET cfg == settings_used(settings, stored_settings)
           composite ==
               CompositeScore(cfg, education_score, skills_score, experience_score)
       IN  /\ bert_baseline_final' = composite
           /\ bert_final_score' =
                 GatedScore(initial_profession_mismatch, profession_similarity,
                            cfg, skills_breakdown, composite)
           /\ capped' = CapApplies(initial_profession_mismatch,
                                   profession_similarity, cfg)
    /\ pc' = "reviewer"
    /\ UNCHANGED << table_vars, function_vars, store_vars, settings, gate_vars, dimension_vars, request_vars,
                    reviewer_vars, outcome_vars >>

\* mutant of reported_dimension: the reviewer's dimension score is reported
\* when the payload has one
reported_dimension_FromReviewer(score, gc, key) ==
    IF gc.t = "dict" /\ gc.other_keys THEN reviewer_dimension_scores[key]
    ELSE RoundTo(score, 1)

\* lines 249-252: round(education_score, 3) and so on, of the local scores;
\* the correction's education_score, skills_score and experience_score are
\* never read
reported_dimension(score, gc, key) == Round3(score)

\* lines 146-265: the returned dict, for a correction that raises nothing
MatchResult(cfg, similarity, initial_mismatch, initial_flagged, override, edu, skills, breakdown, exper, bert_final, baseline, is_capped, gc) ==
    LET default_suggestion == generate_default_suggestion(breakdown.missing, edu, exper)
        final_profession_mismatch == FinalMismatch(gc, initial_mismatch)
        working_score == WorkingScore(gc, initial_mismatch, bert_final)
        profession_reason ==
            ResolveReason(gc, final_profession_mismatch, initial_flagged, override)
        suggestion_text ==
            ResolveSuggestion(gc, initial_mismatch, final_profession_mismatch,
                              default_suggestion, profession_reason)
        final_score == CappedFinalScore(final_profession_mismatch, working_score)
    IN  [bert_scores |->
            [education |-> reported_dimension(edu, gc, "education_score"),
             skills |-> reported_dimension(skills, gc, "skills_score"),
             experience |-> reported_dimension(exper, gc, "experience_score"),
             final |-> Round2(final_score),
             baseline_final |-> Round2(baseline)],
         profession_similarity |-> Round3(similarity),
         profession_match_flag |-> ~ final_profession_mismatch,
         final_score |-> Round2(final_score),
         breakdown_details |->
            [skills_breakdown |-> breakdown,
             education_match |-> edu > 700,
             experience_match |-> exper > 700,
             profession_similarity |-> Round3(similarity),
             transferable_skills |-> is_capped,
             weights_used |-> [education |-> cfg.weight_education,
                               skills |-> cfg.weight_skills,
                               experience |-> cfg.weight_experience],
             bert_baseline_final |-> Round2(baseline),
             profession_mismatch |-> final_profession_mismatch,
             initial_profession_mismatch |-> initial_flagged,
             profession_reason |-> profession_reason,
             ai_profession_mismatch |-> AiFlagResolved(gc),
             improvement_tip |-> ImprovementTip(gc),
             profession_override_reason |->
                 IF Truthy(override) THEN override ELSE Absent,
             message |->
                 IF final_profession_mismatch
                 THEN (IF Truthy(profession_reason) THEN profession_reason
                       ELSE mismatch_suggestion)
                 ELSE Absent,
             mismatch_cap_applied |->
                 IF MismatchCapApplies(final_profession_mismatch, working_score)
                 THEN Num(mismatch_cap) ELSE Absent],
         gemini_correction |->
             AuditCorrection(gc, final_profession_mismatch, working_score),
         suggestion_text |-> suggestion_text]

\* lines 142-267: correction, reconciliation, mismatch cap, return; or an
\* exception that leaves the call
Reconcile(outcome, gc) ==
    /\ reviewer' = outcome
    /\ gemini_correction' = gc
    /\ raised' = Raises(gc)
    /\ IF Raises(gc) = "none"
       THEN /\ result' =
                 MatchResult(settings_used(settings, stored_settings),
                             profession_similarity,
                             initial_profession_mismatch, initial_profession_flagged,
                             profession_override_reason, education_score,
                             skills_score, skills_breakdown, experience_score,
                             bert_final_score, bert_baseline_final, capped, gc)
            /\ pc' = "done"
       ELSE /\ result' = None
            /\ pc' = "raised"

\* lines 123-141 and validate_match_scores up to the request (gemini_service
\* lines 58-114): the one call to the reviewer.  With a client it sends one
\* request and waits; without one it returns None at once and the call runs on
\* to its return.
CallReviewer ==
    /\ pc = "reviewer"
    /\ reviewer_calls' =
          Append(reviewer_calls,
                 [bert_scores |->
                      bert_scores_for_prompt(education_score, skills_score,
                                             experience_score, bert_final_score),
                  profession_similarity |-> profession_similarity])
    /\ IF client
       THEN /\ api_requests' = api_requests + 1
            /\ pc' = "waiting"
            /\ UNCHANGED << reviewer_vars, outcome_vars >>
       ELSE /\ UNCHANGED api_requests
            /\ Reconcile("not_configured",
                         validate_match_scores("not_configured", None))
    /\ UNCHANGED << table_vars, function_vars, store_vars, settings, gate_vars, dimension_vars, composite_vars >>

\* gemini_service lines 107-129, then lines 142-267: generate_content returns
\* or raises, the text is parsed, and the call runs on to its return.  Nothing
\* in the call bounds the wait for the response.
ReviewerResponds ==
    /\ pc = "waiting"
    /\ \E outcome \in ApiOutcomes:
       \E parsed \in ParsedResponses(outcome):
          Reconcile(outcome, validate_match_scores(outcome, parsed))
    /\ UNCHANGED << table_vars, function_vars, store_vars, settings, gate_vars, dimension_vars, composite_vars,
                    request_vars >>

\* the caller takes the result (or the exception); the next call starts fresh
Return ==
    /\ pc \in {"done", "raised"}
    /\ pc' = "idle"
    /\ settings' = None
    /\ profession_similarity' = 0
    /\ initial_profession_mismatch' = FALSE
    /\ initial_profession_flagged' = FALSE
    /\ profession_override_reason' = Null
    /\ education_score' = 0
    /\ skills_score' = 0
    /\ skills_breakdown' = empty_breakdown
    /\ experience_score' = 0
    /\ bert_final_score' = 0
    /\ bert_baseline_final' = 0
    /\ capped' = FALSE
    /\ reviewer_calls' = << >>
    /\ api_requests' = 0
    /\ reviewer' = "not_called"
    /\ gemini_correction' = None
    /\ result' = None
    /\ raised' = "none"
    /\ UNCHANGED << table_vars, function_vars, store_vars >>

Next ==
    \/ admin_settings
    \/ AdminSettingsAdmin
    \/ GateCheck
    \/ ScoreEducation
    \/ ScoreSkills
    \/ ScoreExperience
    \/ Composite
    \/ CallReviewer
    \/ ReviewerResponds
    \/ Return

Spec == Init /\ [][Next]_vars

(***************************************************************************)
(* Properties of compute_match_score.                                      *)
(***************************************************************************)
Returned == pc = "done"

\* the reviewer gave nothing usable: None, or an object without final_score
NoCorrection ==
    gemini_correction.t = "none" \/ gemini_correction.final_score.t = "absent"

\* the reviewer gave an object with a numeric final_score
NumericCorrection ==
    gemini_correction.t = "dict" /\ gemini_correction.final_score.t = "num"

\* r is x rounded to two decimals (a tie may go either way)
NearestHundredth(r, x) == r % (Pt \div 100) = 0 /\ 2 * Abs(r - x) <= Pt \div 100

\* sum(weight * dimension score) * 100, from the state of the call
WeightedComposite ==
    settings.weight_education * education_score
      + settings.weight_skills * skills_score
      + settings.weight_experience * experience_score

\* overlap_ratio = matched / (matched + missing) >= 0.5
OverlapAtLeastHalf ==
    /\ Len(skills_breakdown.matched) + Len(skills_breakdown.missing) > 0
    /\ 2 * Len(skills_breakdown.matched)
         >= Len(skills_breakdown.matched) + Len(skills_breakdown.missing)

\* C1: for every configuration the settings form accepts, every cosine in
\* [-1, 1] and every reviewer outcome, the returned final_score is in [0, 100].
C1_FinalScoreInRange ==
    (Returned /\ FormAccepts(settings))
      => (0 <= result.final_score /\ result.final_score <= 100 * Pt)

\* C2: a result flagged as a profession mismatch has final_score <= 5.0,
\* on every path.
C2_MismatchScoreAtMostCeiling ==
    (Returned /\ ~ result.profession_match_flag) => result.final_score <= 5 * Pt

\* a reviewer confirmed the mismatch with a score above 5 and the result is 5.0
C2_Witness ==
    /\ Returned /\ NumericCorrection
    /\ ~ result.profession_match_flag
    /\ gemini_correction.final_score.v > 5 * Pt
    /\ result.final_score = 5 * Pt

\* C3: similarity below the zero threshold, overlap below 0.5 and no
\* correction give final_score 0.0 and a mismatch flag, whatever the
\* dimension scores are.
C3_GateZeroesScore ==
    (/\ Returned
     /\ profession_similarity < settings.profession_zero_threshold
     /\ ~ OverlapAtLeastHalf
     /\ NoCorrection)
      => (result.final_score = 0 /\ ~ result.profession_match_flag)

\* the gate zeroed a composite that was positive
C3_Witness ==
    /\ Returned /\ NoCorrection
    /\ profession_similarity < settings.profession_zero_threshold
    /\ ~ OverlapAtLeastHalf
    /\ WeightedComposite > 0
    /\ result.bert_scores.skills > 0
    /\ result.final_score = 0

\* C4: a correction that leaves the mismatch confirmed with 5 < s <= 100 gives
\* final_score 5.0 and records s as final_score_original (the correction's
\* final_score becomes 5.0, mismatch_cap_applied is in the breakdown); when
\* the clamp does not fire no pre-clamp value is recorded.
C4_ClampRecordsOriginal ==
    Returned =>
      LET fires ==
              /\ NumericCorrection
              /\ ~ result.profession_match_flag
              /\ gemini_correction.final_score.v > 5 * Pt
          in_claim == fires /\ gemini_correction.final_score.v <= 100 * Pt
      IN  /\ in_claim =>
                /\ result.final_score = 5 * Pt
                /\ result.gemini_correction.final_score_original
                      = gemini_correction.final_score
                /\ result.gemini_correction.final_score = Num(5 * Pt)
                /\ result.breakdown_details.mismatch_cap_applied.t # "absent"
          /\ ~ fires =>
                /\ result.breakdown_details.mismatch_cap_applied.t = "absent"
                /\ result.gemini_correction.t = "dict"
                      => result.gemini_correction.final_score_original.t = "absent"

\* the reviewer confirmed the mismatch with 72 and 72 is kept for audit
C4_Witness ==
    /\ Returned /\ NumericCorrection
    /\ gemini_correction.final_score = Num(72 * Pt)
    /\ ~ result.profession_match_flag
    /\ result.final_score = 5 * Pt
    /\ result.gemini_correction.final_score_original = Num(72 * Pt)

\* the flag strings of the model that are "true", "1" or "yes" once trimmed
\* and lower-cased
TrueFlagStrings == { " Yes ", "TRUE", "1" }

\* C5: a correction with a numeric final_score replaces the score by that
\* value clamped to [0, 100] (then subject to the mismatch ceiling and the
\* two-decimal rounding of the result), whatever the local score was; its
\* profession_mismatch replaces the flag: a string is true exactly when
\* trimmed and lower-cased it is "true", "1" or "yes", any other value counts
\* by truthiness, and an absent (or null) flag leaves the local flag.
C5_CorrectionReplacesScoreAndFlag ==
    (Returned /\ NumericCorrection) =>
      LET s == gemini_correction.final_score.v
          clamped == IF s < 0 THEN 0 ELSE IF s > 100 * Pt THEN 100 * Pt ELSE s
          flag == gemini_correction.profession_mismatch
          mismatch ==
              CASE flag.t \in {"absent", "null"} -> initial_profession_mismatch
                [] flag.t = "str"  -> flag.v \in TrueFlagStrings
                [] flag.t = "bool" -> flag.v
                [] flag.t = "num"  -> flag.v # 0
      IN  /\ result.breakdown_details.profession_mismatch = mismatch
          /\ result.profession_match_flag = ~ mismatch
          /\ NearestHundredth(result.final_score,
                              IF mismatch /\ clamped > 5 * Pt THEN 5 * Pt ELSE clamped)

\* the gate had zeroed the local score and the reviewer's 150 came back as 100
C5_Witness ==
    /\ Returned /\ NumericCorrection
    /\ initial_profession_mismatch /\ bert_final_score = 0
    /\ gemini_correction.final_score = Num(150 * Pt)
    /\ gemini_correction.profession_mismatch = Bool(FALSE)
    /\ result.final_score = 100 * Pt
    /\ result.profession_match_flag

\* the ways the reviewer call ends without a usable JSON object
FailedOutcomes == {"not_configured", "api_error", "bad_json", "non_object"}

\* C6: when the reviewer is not configured, its call raises, its output
\* cannot be parsed or its response has no final_score, the call raises
\* nothing and returns the local outcome: the gated/capped local score, the
\* local flag after the overlap override, and the local default suggestion or
\* the mismatch boilerplate.
C6_ReviewerFailureKeepsLocalOutcome ==
    /\ (pc \in {"done", "raised"} /\ reviewer \in FailedOutcomes)
          => gemini_correction = None
    /\ (pc \in {"done", "raised"} /\ NoCorrection) =>
          /\ pc = "done" /\ raised = "none"
          /\ NearestHundredth(result.final_score, bert_final_score)
          /\ initial_profession_mismatch => result.final_score = 0
          /\ result.profession_match_flag = ~ initial_profession_mismatch
          /\ result.suggestion_text =
                IF initial_profession_mismatch THEN mismatch_suggestion
                ELSE generate_default_suggestion(skills_breakdown.missing,
                                                 education_score, experience_score)

\* the reviewer's output parsed to something that is no object, and the call
\* returned the capped local score
C6_Witness ==
    /\ Returned /\ reviewer = "non_object"
    /\ capped /\ bert_final_score < bert_baseline_final
    /\ result.final_score > 0
    /\ result.profession_match_flag

\* the payload has a field of the wrong type
InvalidField ==
    /\ gemini_correction.t = "dict"
    /\ \/ gemini_correction.final_score.t \in {"null", "str"}
       \/ gemini_correction.review.t \notin {"absent", "str"}
       \/ gemini_correction.suggestion.t \notin {"absent", "str"}

\* C7: a reviewer payload with a missing or invalid field never causes an
\* error: the call still returns a result, and an invalid final_score means
\* no correction (the local score and flag are kept).
C7_InvalidFieldIsAbsent ==
    (pc \in {"done", "raised"} /\ InvalidField) =>
       /\ pc = "done" /\ raised = "none"
       /\ gemini_correction.final_score.t \in {"null", "str"} =>
             /\ NearestHundredth(result.final_score, bert_final_score)
             /\ result.profession_match_flag = ~ initial_profession_mismatch

\* C8: similarity at or above both thresholds and no correction give
\* final_score = round(sum(weight * dimension score) * 100, 2), and the
\* uncapped composite is reported as the baseline.
C8_UngatedScoreIsComposite ==
    (/\ Returned /\ NoCorrection
     /\ profession_similarity >= settings.profession_zero_threshold
     /\ profession_similarity >= settings.profession_cap_threshold)
      => /\ NearestHundredth(result.final_score, WeightedComposite)
         /\ NearestHundredth(result.bert_scores.baseline_final, WeightedComposite)
         /\ result.breakdown_details.bert_baseline_final
               = result.bert_scores.baseline_final

\* an ungated call whose composite needed rounding
C8_Witness ==
    /\ Returned /\ NoCorrection
    /\ profession_similarity >= settings.profession_zero_threshold
    /\ profession_similarity >= settings.profession_cap_threshold
    /\ WeightedComposite > 0
    /\ WeightedComposite % (Pt \div 100) # 0
    /\ result.final_score # WeightedComposite

\* the example of the specification: weights {0.35, 0.45, 0.20}, dimension
\* scores {0.8, 0.6, 0.5}, similarity 0.9 above both thresholds, no correction
C9_Example ==
    /\ Returned /\ NoCorrection
    /\ settings.weight_education = 350
    /\ settings.weight_skills = 450
    /\ settings.weight_experience = 200
    /\ education_score = 800 /\ skills_score = 600 /\ experience_score = 500
    /\ profession_similarity = 900
    /\ profession_similarity >= settings.profession_zero_threshold
    /\ profession_similarity >= settings.profession_cap_threshold

\* C9 (as stated): the example returns final_score == 62.0.
C9_ExampleIs62 == C9_Example => result.final_score = 62 * Pt

\* C9 (amended): the example returns final_score == 65.0, which is
\* round((0.35*0.8 + 0.45*0.6 + 0.20*0.5) * 100, 2).
C9_ExampleIs65 == C9_Example => result.final_score = 65 * Pt

\* the example is a call of the model
C9_Witness == C9_Example /\ result.bert_scores.baseline_final = 65 * Pt

\* C10: similarity below the zero threshold with overlap_ratio >= 0.5 is
\* overridden: with no correction the result is not flagged, the override
\* reason is in the breakdown, and final_score is the weighted composite
\* (capped when the cap applies) instead of the gate's zero.
C10_OverlapOverride ==
    (/\ Returned /\ NoCorrection
     /\ profession_similarity < settings.profession_zero_threshold
     /\ OverlapAtLeastHalf)
      => LET widened == (3 * settings.partial_credit_cap) \div 2
             cap == IF widened > 100 * Pt THEN 100 * Pt ELSE widened
             expected ==
                 IF profession_similarity < settings.profession_cap_threshold
                    /\ WeightedComposite > cap
                 THEN cap ELSE WeightedComposite
         IN  /\ result.profession_match_flag
             /\ result.breakdown_details.profession_override_reason
                   = Str("High skill overlap with JD")
             /\ NearestHundredth(result.final_score, expected)

\* the example: similarity 0.1 below the zero threshold 0.2, three of five
\* posting skills matched (0.6), and a final score that is not zero
C10_Witness ==
    /\ Returned /\ NoCorrection
    /\ profession_similarity = 100
    /\ settings.profession_zero_threshold = 200
    /\ Len(skills_breakdown.matched) = 3 /\ Len(skills_breakdown.missing) = 2
    /\ result.profession_match_flag
    /\ result.final_score > 0

\* the composite stage of the call is over
CompositeComputed == pc \in {"reviewer", "waiting", "done", "raised"}

\* C11: with no mismatch active and similarity below the cap threshold, the
\* pre-correction score is min(composite * 100, cap), where cap is
\* partial_credit_cap when the overlap ratio is below 0.5 and
\* min(100, 1.5 * partial_credit_cap) when it is at least 0.5; with similarity
\* at or above the cap threshold nothing is capped and the result is not marked
\* as capped.
C11_PartialCreditCap ==
    CompositeComputed =>
      LET widened == (3 * settings.partial_credit_cap) \div 2
          cap == IF OverlapAtLeastHalf
                 THEN (IF widened > 100 * Pt THEN 100 * Pt ELSE widened)
                 ELSE settings.partial_credit_cap
          below == profession_similarity < settings.profession_cap_threshold
      IN  /\ (~ initial_profession_mismatch /\ below) =>
                /\ bert_final_score
                      = (IF WeightedComposite > cap THEN cap ELSE WeightedComposite)
                /\ capped
          /\ ~ below =>
                /\ ~ capped
                /\ ~ initial_profession_mismatch => bert_final_score = WeightedComposite
          /\ Returned => result.breakdown_details.transferable_skills = capped

\* default cap 30 widened to 45 by an overlap of at least one half, and a
\* composite above it
C11_Witness ==
    /\ Returned /\ capped /\ OverlapAtLeastHalf
    /\ settings.partial_credit_cap = 30 * Pt
    /\ WeightedComposite > 45 * Pt
    /\ bert_final_score = 45 * Pt
    /\ result.breakdown_details.transferable_skills

\* a step of the scoring call itself: not the reviewer's, not an administrator's
CallStep ==
    \/ GateCheck \/ ScoreEducation \/ ScoreSkills \/ ScoreExperience
    \/ Composite \/ CallReviewer \/ Return

\* C12: the wait for the reviewer is bounded by a timeout of the caller: a
\* call that waits for the response can go on by itself, so it returns the
\* local score even if the reviewer never responds.
C12_WaitIsBounded == pc = "waiting" => ENABLED CallStep

SnapshotUsed ==
    CompositeComputed =>
      LET widened == (3 * settings.partial_credit_cap) \div 2
          cap == IF OverlapAtLeastHalf
                 THEN (IF widened > 100 * Pt THEN 100 * Pt ELSE widened)
                 ELSE settings.partial_credit_cap
      IN  /\ initial_profession_flagged
                = (profession_similarity < settings.profession_zero_threshold)
          /\ bert_baseline_final = WeightedComposite
          /\ capped = (/\ ~ initial_profession_mismatch
                       /\ profession_similarity < settings.profession_cap_threshold)
          /\ capped => bert_final_score
                         = (IF WeightedComposite > cap THEN cap ELSE WeightedComposite)
          /\ Returned =>
                result.breakdown_details.weights_used
                  = [education |-> settings.weight_education,
                     skills |-> settings.weight_skills,
                     experience |-> settings.weight_experience]

\* the settings object is the stored row as it is when the call starts, and
\* stays what it is until the call is over
SnapshotTaken ==
    /\ (pc = "idle" /\ pc' # "idle") => settings' = stored_settings
    /\ (pc # "idle" /\ pc' # "idle") => settings' = settings

\* C14: the gate check, the composite, the cap and the weights_used of one
\* call all come from one configuration, read once when the call starts; a
\* settings update during the call changes none of them.
C14_SingleSnapshot == [] SnapshotUsed /\ [][SnapshotTaken]_vars

\* the stored row was changed during the call, and the call reports the
\* weights it started with
C14_Witness ==
    /\ Returned /\ capped
    /\ settings = DefaultSettings
    /\ stored_settings # settings
    /\ stored_settings.weight_experience # settings.weight_experience
    /\ stored_settings.partial_credit_cap # settings.partial_credit_cap
    /\ result.breakdown_details.weights_used.experience = 200
    /\ result.final_score = 30 * Pt

\* C16: after any sequence of settings updates (settings form, admin site,
\* default creation) the stored configuration has weight_education +
\* weight_skills + weight_experience within 0.01 of 1.0: an update that
\* violates this is rejected and leaves the stored row unchanged.
C16_StoredWeightsSumToOne ==
    Abs(stored_settings.weight_education + stored_settings.weight_skills
          + stored_settings.weight_experience - Unit) <= Unit \div 100

\* a correction: the reviewer's object with a final_score
Corrected == gemini_correction.t = "dict" /\ gemini_correction.final_score.t # "absent"

\* a text the reviewer supplied: a string that is not empty
HasText(j) == j.t = "str" /\ j.v # ""

\* the local default suggestion of the call
LocalDefault ==
    generate_default_suggestion(skills_breakdown.missing, education_score,
                                experience_score)

\* C17: the suggestion is the reviewer's review text when a correction
\* supplies a non-empty one (surrounding blanks trimmed); otherwise the
\* reviewer's suggestion text when supplied; otherwise, for a mismatch, the
\* mismatch boilerplate (or the reason the reviewer gave for the mismatch),
\* and for a match the local default.  A result that is no mismatch never
\* carries the mismatch boilerplate.
C17_SuggestionPriority ==
    Returned =>
      LET gc == gemini_correction
          mismatch == ~ result.profession_match_flag
          got == result.suggestion_text
      IN  /\ IF Corrected /\ HasText(gc.review)
             THEN got \in {gc.review, Str(strip(gc.review.v))}
             ELSE IF Corrected /\ HasText(gc.suggestion)
             THEN got = gc.suggestion
             ELSE IF mismatch
             THEN \/ got = mismatch_suggestion
                  \/ Corrected /\ HasText(gc.profession_reason)
                        /\ got = gc.profession_reason
             ELSE got = LocalDefault
          /\ ~ mismatch => got # mismatch_suggestion

\* the payloads of C17 whose review and suggestion are texts or absent
C17_TextsOrAbsent ==
    Corrected =>
      /\ gemini_correction.review.t = "absent" \/ HasText(gemini_correction.review)
      /\ gemini_correction.suggestion.t = "absent"
            \/ HasText(gemini_correction.suggestion)

\* the overlap override cleared the gate's flag in this call
OverrideOccurred == profession_override_reason.t = "str"

\* C18: profession_reason is the reviewer's reason when a correction supplies
\* one; otherwise the "reviewer confirmed alignment" text when the gate
\* originally fired and the result is no mismatch; otherwise the
\* overlap-override reason when an override occurred; otherwise the mismatch
\* boilerplate when the result is a mismatch; otherwise null.
C18_ReasonPriority ==
    Returned =>
      LET gc == gemini_correction
          mismatch == ~ result.profession_match_flag
      IN  result.breakdown_details.profession_reason =
            (IF Corrected /\ HasText(gc.profession_reason) THEN gc.profession_reason
             ELSE IF initial_profession_flagged /\ ~ mismatch
             THEN Str("AI reviewer confirmed the role aligns with your profile.")
             ELSE IF OverrideOccurred THEN Str("High skill overlap with JD")
             ELSE IF mismatch THEN mismatch_suggestion
             ELSE Null)

\* C19: every result reports the three dimension scores of the local scorers
\* (rounded to three decimals), also when the gate fired and the score was
\* zeroed; the education_score, skills_score and experience_score of a
\* correction never replace them.
C19_DimensionScoresReported ==
    Returned =>
      /\ result.bert_scores.education = education_score
      /\ result.bert_scores.skills = skills_score
      /\ result.bert_scores.experience = experience_score
      /\ reviewer_calls[1].bert_scores.education = result.bert_scores.education
      /\ reviewer_calls[1].bert_scores.skills = result.bert_scores.skills
      /\ reviewer_calls[1].bert_scores.experience = result.bert_scores.experience

\* the gate zeroed the score, the reviewer's correction carried its own
\* dimension scores, and the result reports the local ones
C19_Witness ==
    /\ Returned /\ initial_profession_mismatch /\ bert_final_score = 0
    /\ Corrected /\ gemini_correction.other_keys
    /\ result.bert_scores.education = 800
    /\ result.bert_scores.skills = 430
    /\ result.bert_scores.experience = 500
    /\ result.bert_scores.education # reviewer_dimension_scores.education_score


\* ---------------------------------------------------------------------
\* compute_skills_similarity called on its own, on every pair of skill lists
\* of the model and every cosine of a grid

\* the longest skill list passed to the function
MaxSkills == 3

called_skill_names == { skill_names[i] : i \in 1..MaxSkills }

\* the lists without repetition of at most MaxSkills names
RECURSIVE ListsOf(_, _)
ListsOf(names, n) ==
    IF n = 0 THEN { <<>> }
    ELSE LET shorter == ListsOf(names, n - 1)
         IN  shorter \cup { Append(l, x) : l \in shorter, x \in names }

SkillLists ==
    { l \in ListsOf(called_skill_names, MaxSkills) : Cardinality(Range(l)) = Len(l) }

\* cosines of two skill texts, in thousandths: opposite, unrelated (or no
\* embedder, which gives all-zero vectors), and up to identical
CalledCosines == {0 - Unit, 0 - 500, 0, 500, 999, Unit}

SkillsArgs ==
    [resume_skills : SkillLists, jd_skills : SkillLists,
     cosine : CalledCosines, order : HashOrders]

SkillsCallInit ==
    /\ stored_settings = DefaultSettings
    /\ client = FALSE
    /\ pc = "idle"
    /\ FreshCall
    /\ OneSettingsRow
    /\ fn_args \in SkillsArgs
    /\ fn_result = None

call_compute_skills_similarity ==
    /\ fn_result = None
    /\ fn_result' = compute_skills_similarity(fn_args.resume_skills, fn_args.jd_skills,
                                              fn_args.cosine, fn_args.order)
    /\ UNCHANGED << fn_args, table_vars, store_vars, call_vars >>

SkillsCallNext == call_compute_skills_similarity

SkillsCallSpec == SkillsCallInit /\ [][SkillsCallNext]_vars

SkillsReturned == fn_result # None

AllRequestedMatched ==
    /\ fn_args.jd_skills # <<>>
    /\ Range(fn_args.jd_skills) \subseteq Range(fn_args.resume_skills)

NoneMatched ==
    /\ fn_args.jd_skills # <<>>
    /\ fn_args.resume_skills # <<>>
    /\ Range(fn_args.jd_skills) \cap Range(fn_args.resume_skills) = {}

\* C20 as stated: the skills score is exactly 1.0 if and only if the posting
\* lists no skills, and exactly 0.0 if and only if the resume lists none
\* while the posting lists some
C20_SkillsScoreIff ==
    SkillsReturned =>
        /\ fn_result.score = Unit <=> fn_args.jd_skills = <<>>
        /\ fn_result.score = 0 <=>
              (fn_args.resume_skills = <<>> /\ fn_args.jd_skills # <<>>)

\* C20 amended: the skills score is exactly 1.0 if the posting lists no
\* skills and exactly 0.0 if the resume lists none while the posting lists
\* some; a resume with every requested skill and a cosine of 1.0 also scores
\* exactly 1.0, a resume with none of them and a cosine of 0.0 also scores
\* exactly 0.0, and nothing else scores 1.0
C20_SkillsScoreIf ==
    SkillsReturned =>
        /\ fn_args.jd_skills = <<>> => fn_result.score = Unit
        /\ (fn_args.resume_skills = <<>> /\ fn_args.jd_skills # <<>>)
              => fn_result.score = 0
        /\ (AllRequestedMatched /\ fn_args.cosine = Unit) => fn_result.score = Unit
        /\ (NoneMatched /\ fn_args.cosine = 0) => fn_result.score = 0
        /\ fn_result.score = Unit =>
              \/ fn_args.jd_skills = <<>>
              \/ AllRequestedMatched /\ fn_args.cosine >= Unit

\* a posting without skills scored against a resume that lists some
C20_Witness ==
    /\ SkillsReturned
    /\ fn_args.jd_skills = <<>>
    /\ fn_args.resume_skills # <<>>
    /\ fn_args.cosine = 0 - 500
    /\ fn_result.score = Unit


\* ---------------------------------------------------------------------
\* compute_match_score called again on the same arguments: the call as a
\* function of its arguments, of the stored settings, of the reviewer's
\* answer and of what it reads from the process around it, the clock
\* (datetime.utcnow) and the iteration order of sets of strings

\* a month as the number of months since year 0, sy * 12 + (sm - 1)
MonthTotal(year_month) == year_month[1] * 12 + (year_month[2] - 1)

\* lines 173-177 of nlp_service: 'present' or 'current' ends a span in the
\* month of the call
SpanEnd(span, utcnow) == IF span.open THEN utcnow ELSE span.end

\* lines 194-207: the months of the spans whose end is not before their start
RECURSIVE total_months(_, _)
total_months(spans, utcnow) ==
    IF spans = <<>> THEN 0
    ELSE LET start_total == MonthTotal(Head(spans).start)
             end_total == MonthTotal(SpanEnd(Head(spans), utcnow))
         IN  (IF end_total < start_total THEN 0 ELSE end_total - start_total + 1)
                + total_months(Tail(spans), utcnow)

ValidSpans(spans, utcnow) ==
    { i \in 1..Len(spans) :
         MonthTotal(SpanEnd(spans[i], utcnow)) >= MonthTotal(spans[i].start) }

SetMin(S) == CHOOSE x \in S : \A y \in S : x <= y

SetMax(S) == CHOOSE x \in S : \A y \in S : x >= y

\* months to tenths of a year
MonthsToYears(months) == (10 * months) \div 12

\* _estimate_years_from_dates on the date spans of a text, in tenths of a
\* year; 0 stands for None
estimate_years_from_dates(spans, utcnow) ==
    IF spans = <<>> \/ total_months(spans, utcnow) <= 0 THEN 0
    ELSE LET valid == ValidSpans(spans, utcnow)
             overall_start == SetMin({ MonthTotal(spans[i].start) : i \in valid })
             overall_end ==
                 SetMax({ MonthTotal(SpanEnd(spans[i], utcnow)) : i \in valid })
         IN  Max(MonthsToYears(total_months(spans, utcnow)),
                 MonthsToYears(overall_end - overall_start + 1))

\* _extract_years: the largest of the stated year counts and the estimate
extract_years(text, utcnow) ==
    LET estimated_years == estimate_years_from_dates(text.date_spans, utcnow)
        years_found ==
            text.stated_years \cup (IF estimated_years # 0 THEN {estimated_years} ELSE {})
    IN  IF years_found = {} THEN 0 ELSE SetMax(years_found)

extract_experience(text, utcnow) ==
    Experience(extract_years(text, utcnow), text.job_titles, text.normalized_text)

\* extract_skills returns list(found_skills), found_skills a set
extract_skills(text, order) == list_of_set(text.skills, Range(text.skills), order)

parse_resume_sections(text, utcnow, order) ==
    [education |-> text.education,
     skills |-> extract_skills(text, order),
     experience |-> extract_experience(text, utcnow)]

\* compute_match_score from its arguments to its return value
compute_match_score(call, utcnow, order) ==
    LET resume_sections ==
            IF call.resume_sections = None
            THEN parse_resume_sections(call.resume_text, utcnow, order)
            ELSE call.resume_sections
        jd_sections == call.jd_sections
        cfg == get_settings(call.stored_settings)
        similarity ==
            compute_profession_similarity("resume", "posting", call.profession_cosine)
        initial_flagged == GateFires(similarity, cfg)
        edu == compute_education_similarity(resume_sections.education,
                                            jd_sections.education,
                                            call.education_cosine)
        scored == compute_skills_similarity(resume_sections.skills, jd_sections.skills,
                                            call.skills_cosine, order)
        breakdown == [matched |-> scored.breakdown.matched,
                      missing |-> scored.breakdown.missing,
                      extra |-> scored.breakdown.extra,
                      match_ratio_value |-> match_ratio_value(scored.breakdown)]
        overridden == initial_flagged /\ HighOverlap(scored.breakdown)
        initial_mismatch == initial_flagged /\ ~ overridden
        override == IF overridden THEN override_reason ELSE Null
        exper == compute_experience_similarity(resume_sections.experience,
                                               jd_sections.experience,
                                               call.experience_cosine)
        composite == CompositeScore(cfg, edu, scored.score, exper)
        bert_final == GatedScore(initial_mismatch, similarity, cfg, breakdown, composite)
        is_capped == CapApplies(initial_mismatch, similarity, cfg)
        gc == call.reviewer_response
    IN  IF Raises(gc) # "none" THEN [raised |-> Raises(gc)]
        ELSE MatchResult(cfg, similarity, initial_mismatch, initial_flagged, override,
                         edu, scored.score, breakdown, exper, bert_final, composite,
                         is_capped, gc)

\* 'mar 2019 to dec 2020'
DateSpan(start, end) == [start |-> start, end |-> end, open |-> FALSE]

\* 'mar 2023 to present': the end is the start until 'present' is read
OpenSpan(start) == [start |-> start, end |-> start, open |-> TRUE]

ResumeText(stated, spans) ==
    [education |-> Education("bachelor", "bsc physics"),
     skills |-> << "python" >>,
     stated_years |-> stated,
     date_spans |-> spans,
     job_titles |-> {"engineer"},
     normalized_text |-> "engineer"]

\* the experience part of a resume: year counts written out, and date spans
ResumeTexts ==
    { ResumeText(stated, spans) :
        stated \in { {}, {20} },
        spans \in { <<>>,
                    << DateSpan(<<2019, 1>>, <<2020, 12>>) >>,
                    << OpenSpan(<<2023, 3>>) >>,
                    << DateSpan(<<2019, 1>>, <<2020, 12>>),
                       OpenSpan(<<2026, 1>>) >> } }

\* datetime.utcnow() of a call, as (year, month)
CallDates == { <<2025, 6>>, <<2026, 6>> }

\* the month in which the match view parsed and stored a resume's sections
ParsedDate == <<2025, 6>>

PostingSections ==
    { [education |-> Education("bachelor", "bachelor required"),
       skills |-> SubSeq(skill_names, 1, MaxJdSkills),
       experience |-> Experience(years, {"engineer"}, "engineer")] :
        years \in {0, 50} }

ReplayedResponses ==
    { None,
      Payload(Num(70 * Pt), Bool(FALSE), Absent, Absent, Absent, FALSE),
      Payload(Num(70 * Pt), Absent, Absent, Str("review"), Absent, FALSE) }

\* the arguments of a call and what is the same for its repetitions: the
\* sections are passed, or left out and parsed by the call
ReplayArgs ==
    { [resume_text |-> text, resume_sections |-> sections, jd_sections |-> jd,
       stored_settings |-> DefaultSettings, profession_cosine |-> 900,
       education_cosine |-> 1000, skills_cosine |-> 600, experience_cosine |-> 1000,
       reviewer_response |-> gc] :
        text \in ResumeTexts, jd \in PostingSections, gc \in ReplayedResponses,
        sections \in {None} \cup
            { parse_resume_sections(t, ParsedDate, "forward") : t \in ResumeTexts } }

\* how many times the same call is made
MaxReplays == 2

ReplayInit ==
    /\ stored_settings = DefaultSettings
    /\ client = TRUE
    /\ pc = "idle"
    /\ FreshCall
    /\ OneSettingsRow
    /\ fn_args \in ReplayArgs
    /\ fn_result = << >>

\* one more call on the same arguments, in some month and in a process with
\* some hash seed
call_compute_match_score ==
    /\ Len(fn_result) < MaxReplays
    /\ \E utcnow \in CallDates, order \in HashOrders:
          fn_result' = Append(fn_result,
                              [utcnow |-> utcnow, order |-> order,
                               returned |-> compute_match_score(fn_args, utcnow, order)])
    /\ UNCHANGED << fn_args, table_vars, store_vars, call_vars >>

ReplayNext == call_compute_match_score

ReplaySpec == ReplayInit /\ [][ReplayNext]_vars

\* C15: two calls with the same resume text, posting text and sections, the
\* same configuration and the same reviewer response return identical
\* results, whatever the month they run in (stated here for two calls that
\* iterate their sets in the same order, as calls of one process do)
C15_SameInputsSameResult ==
    \A i, j \in 1..Len(fn_result) :
        fn_result[i].order = fn_result[j].order
           => fn_result[i].returned = fn_result[j].returned


\* ---------------------------------------------------------------------
\* compute_skills_similarity called on a resume list and again on the list
\* with one more of the posting's skills; the joined skill text changes with
\* the list, so each call has its own cosine

SkillsAddArgs ==
    { [resume_skills |-> r, jd_skills |-> j, added |-> a,
       cosine_before |-> c1, cosine_after |-> c2, order |-> o] :
        r \in SkillLists, j \in SkillLists, a \in called_skill_names,
        c1 \in CalledCosines, c2 \in CalledCosines, o \in HashOrders }

SkillsAddInit ==
    /\ stored_settings = DefaultSettings
    /\ client = FALSE
    /\ pc = "idle"
    /\ FreshCall
    /\ OneSettingsRow
    /\ fn_args \in SkillsAddArgs
    /\ fn_args.added \in Range(fn_args.jd_skills) \ Range(fn_args.resume_skills)
    /\ fn_result = << >>

\* compute_skills_similarity(R, J)
call_skills_before ==
    /\ Len(fn_result) = 0
    /\ fn_result' = << compute_skills_similarity(fn_args.resume_skills, fn_args.jd_skills,
                                                 fn_args.cosine_before, fn_args.order) >>
    /\ UNCHANGED << fn_args, table_vars, store_vars, call_vars >>

\* compute_skills_similarity(R + [s], J)
call_skills_after ==
    /\ Len(fn_result) = 1
    /\ fn_result' = Append(fn_result,
                           compute_skills_similarity(Append(fn_args.resume_skills,
                                                            fn_args.added),
                                                     fn_args.jd_skills,
                                                     fn_args.cosine_after, fn_args.order))
    /\ UNCHANGED << fn_args, table_vars, store_vars, call_vars >>

SkillsAddNext == call_skills_before \/ call_skills_after

SkillsAddSpec == SkillsAddInit /\ [][SkillsAddNext]_vars

\* C21: adding to the resume a skill that the posting asks for never lowers
\* the skills score, whatever the cosines of the joined skill texts are
\* before and after the addition
C21_AddedSkillNeverLowers ==
    Len(fn_result) = 2 => fn_result[2].score >= fn_result[1].score


\* ---------------------------------------------------------------------
\* compute_education_similarity called for one posting and one resume text
\* with each degree level in turn, lowest first

degree_levels == << "unknown", "diploma", "bachelor", "master", "doctoral" >>

EducationTexts == {"", "science degree"}

EducationArgs ==
    [jd_edu : { Education(degree_levels[k], text) :
                   k \in 1..Len(degree_levels), text \in EducationTexts },
     resume_text : EducationTexts,
     cosine : CalledCosines]

EducationCallInit ==
    /\ stored_settings = DefaultSettings
    /\ client = FALSE
    /\ pc = "idle"
    /\ FreshCall
    /\ OneSettingsRow
    /\ fn_args \in EducationArgs
    /\ fn_result = << >>

\* the next call: the same resume with the next degree level
call_compute_education_similarity ==
    /\ Len(fn_result) < Len(degree_levels)
    /\ fn_result' =
          Append(fn_result,
                 compute_education_similarity(
                     Education(degree_levels[Len(fn_result) + 1], fn_args.resume_text),
                     fn_args.jd_edu, fn_args.cosine))
    /\ UNCHANGED << fn_args, table_vars, store_vars, call_vars >>

EducationCallNext == call_compute_education_similarity

EducationCallSpec == EducationCallInit /\ [][EducationCallNext]_vars

\* the posting's rank, and the position of the posting's level in fn_result
PostingRank == level_hierarchy[fn_args.jd_edu.degree_level]

\* C22: for a posting that states a degree, a resume with no stated
\* education scores strictly lower on education than the same resume with
\* the posting's degree, for every cosine the two share
C22_NoEducationScoresLower ==
    (PostingRank >= 1 /\ Len(fn_result) >= PostingRank + 1)
        => fn_result[1] < fn_result[PostingRank + 1]


\* the b of the claim: the cosine of the two education texts, 0.0 if either
\* is empty
BaseSimilarity ==
    IF fn_args.resume_text # "" /\ fn_args.jd_edu.normalized_text # ""
    THEN fn_args.cosine ELSE 0

\* the floor for a gap between the resume's rank and the posting's
GapFloor(gap) ==
    IF gap >= 1 THEN (9 * Unit) \div 10
    ELSE IF gap = 0 THEN (8 * Unit) \div 10
    ELSE IF gap = -1 THEN (6 * Unit) \div 10
    ELSE (4 * Unit) \div 10

\* C26: for ranks 0..4 and base similarity b the education score is
\* min(1, b + 0.15 * resume_rank) when the posting's rank is 0, and otherwise
\* min(1, max(floor, b)) with floor 0.9, 0.8, 0.6, 0.4 for a gap of at least
\* 1, of 0, of -1 and below; for a fixed b it never decreases as the resume's
\* rank increases
C26_EducationScoreByRank ==
    /\ \A k \in 1..Len(fn_result) :
          LET resume_rank == k - 1
          IN  fn_result[k] =
                 IF PostingRank = 0
                 THEN Min(Unit, BaseSimilarity + ((15 * Unit) \div 100) * resume_rank)
                 ELSE Min(Unit, Max(GapFloor(resume_rank - PostingRank), BaseSimilarity))
    /\ \A k \in 1..(Len(fn_result) - 1) : fn_result[k] <= fn_result[k + 1]

\* a bachelor posting and a cosine of 0.5: the lowest rank scores the cosine,
\* above its floor of 0.4, the others their floors
C26_Witness ==
    /\ fn_args.jd_edu.degree_level = "bachelor"
    /\ BaseSimilarity = 500
    /\ fn_result = << 500, 600, 800, 900, 900 >>


\* ---------------------------------------------------------------------
\* NLPService._segment_document, one loop iteration per step.  A line is a
\* sequence of pieces of text (a keyword, a colon, blank space, other text),
\* so that a prefix of the line's characters is a prefix of the sequence.

\* str.strip() of a line: blank space off both ends
RECURSIVE lstrip_line(_)
lstrip_line(line) ==
    IF line # <<>> /\ Head(line) = " " THEN lstrip_line(Tail(line)) ELSE line

strip_line(line) == Reverse(lstrip_line(Reverse(lstrip_line(line))))

\* str.lower() of a piece of text
lower_piece(piece) ==
    IF piece = "Skills" \/ piece = "SKILLS" THEN "skills"
    ELSE IF piece = "Managed " THEN "managed "
    ELSE piece

lower_line(line) == [k \in 1..Len(line) |-> lower_piece(line[k])]

\* str.startswith
StartsWith(line, prefix) ==
    Len(line) >= Len(prefix) /\ SubSeq(line, 1, Len(prefix)) = prefix

\* self.section_keywords in the order of the dict, two keywords of each
section_keys == << "education", "experience", "skills" >>

section_keywords ==
    [education |-> { << "education" >>, << "academic ", "background" >> },
     experience |-> { << "experience" >>, << "work ", "experience" >> },
     skills |-> { << "skills" >>, << "technical ", "skills" >> }]

\* lines 65-75: whether a keyword of the section matches the line
KeywordMatches(normalized_line, key) ==
    \E keyword \in section_keywords[key] :
        \/ StartsWith(normalized_line, keyword)
        \/ StartsWith(normalized_line, Append(keyword, ":"))
        \/ normalized_line = keyword

\* lines 64-75: the first section with a matching keyword, or "none"
matched_section_of(normalized_line) ==
    LET hits == { k \in 1..Len(section_keys) :
                     KeywordMatches(normalized_line, section_keys[k]) }
    IN  IF hits = {} THEN "none" ELSE section_keys[SetMin(hits)]

\* mutant of segment_line: a heading line is also kept as content of the
\* section it opens
segment_line_KeepsHeading(locals, raw_line) ==
    LET line == strip_line(raw_line)
        matched_section == matched_section_of(lower_line(line))
    IN  IF line = <<>> THEN [locals EXCEPT !.i = @ + 1]
        ELSE IF matched_section # "none"
        THEN [locals EXCEPT !.i = @ + 1, !.matched_section = matched_section,
                            !.current_key = matched_section,
                            !.sections[matched_section] = Append(@, line)]
        ELSE IF locals.current_key # "none"
        THEN [locals EXCEPT !.i = @ + 1, !.matched_section = matched_section,
                            !.sections[locals.current_key] = Append(@, line)]
        ELSE [locals EXCEPT !.i = @ + 1, !.matched_section = matched_section]

\* lines 59-82: the body of the loop for one line
segment_line(locals, raw_line) ==
    LET line == strip_line(raw_line)
        matched_section == matched_section_of(lower_line(line))
    IN  IF line = <<>> THEN [locals EXCEPT !.i = @ + 1]
        ELSE IF matched_section # "none"
        THEN [locals EXCEPT !.i = @ + 1, !.matched_section = matched_section,
                            !.current_key = matched_section]
        ELSE IF locals.current_key # "none"
        THEN [locals EXCEPT !.i = @ + 1, !.matched_section = matched_section,
                            !.sections[locals.current_key] = Append(@, line)]
        ELSE [locals EXCEPT !.i = @ + 1, !.matched_section = matched_section]

\* line 84: the sections that have lines; '\n'.join(values) is kept as the
\* sequence of the lines, which are stripped and not empty, so that the final
\* strip() changes nothing
segment_return(sections) ==
    [key \in { k \in DOMAIN sections : sections[k] # <<>> } |-> sections[key]]

\* the lines of the documents
DocumentLines ==
    { << >>,
      << " " >>,
      << "Skills" >>,
      << " ", "SKILLS", ":", " " >>,
      << "education" >>,
      << "work ", "experience", ":" >>,
      << "Skills", ":", " ", "python sql" >>,
      << "experience", "d engineer" >>,
      << "python sql" >>,
      << "bsc physics" >>,
      << "Managed ", "skills", " training" >> }

\* the longest document, in lines
MaxLines == 3

RECURSIVE DocumentsOf(_)
DocumentsOf(n) ==
    IF n = 0 THEN { << >> }
    ELSE LET shorter == DocumentsOf(n - 1)
         IN  shorter \cup { Append(d, l) : d \in shorter, l \in DocumentLines }

SegmentInit ==
    /\ stored_settings = DefaultSettings
    /\ client = FALSE
    /\ pc = "idle"
    /\ FreshCall
    /\ OneSettingsRow
    /\ fn_args \in [lines : DocumentsOf(MaxLines)]
    /\ fn_result = [i |-> 0, current_key |-> "none", matched_section |-> "none",
                    sections |-> [key \in Range(section_keys) |-> << >>],
                    returned |-> None]

\* the next iteration of the loop over the lines
SegmentLine ==
    /\ fn_result.returned = None
    /\ fn_result.i < Len(fn_args.lines)
    /\ fn_result' = segment_line(fn_result, fn_args.lines[fn_result.i + 1])
    /\ UNCHANGED << fn_args, table_vars, store_vars, call_vars >>

\* after the last line
SegmentReturn ==
    /\ fn_result.returned = None
    /\ fn_result.i = Len(fn_args.lines)
    /\ fn_result' = [fn_result EXCEPT !.returned = segment_return(fn_result.sections)]
    /\ UNCHANGED << fn_args, table_vars, store_vars, call_vars >>

SegmentNext == SegmentLine \/ SegmentReturn

SegmentSpec == SegmentInit /\ [][SegmentNext]_vars

\* the line the loop has just handled, stripped
HandledLine == strip_line(fn_args.lines[fn_result.i])

\* a known heading keyword, optionally followed by a colon
KnownHeading(normalized_line) ==
    \E k \in 1..Len(section_keys) : \E keyword \in section_keywords[section_keys[k]] :
        normalized_line = keyword \/ normalized_line = Append(keyword, ":")

\* C23: a non-blank line is treated as a heading exactly when, trimmed and
\* lower-cased, it is a known heading keyword optionally followed by a colon
C23_HeadingIffKeyword ==
    (fn_result.returned = None /\ fn_result.i >= 1 /\ HandledLine # << >>)
        => (fn_result.matched_section # "none"
               <=> KnownHeading(lower_line(HandledLine)))


\* whether the loop takes line k of the document as a heading
IsHeadingLine(k) ==
    matched_section_of(lower_line(strip_line(fn_args.lines[k]))) # "none"

\* the section of the last heading before line k, "none" if there is none
SectionBefore(k) ==
    LET earlier == { h \in 1..(k - 1) : IsHeadingLine(h) }
    IN  IF earlier = {} THEN "none"
        ELSE matched_section_of(lower_line(strip_line(fn_args.lines[SetMax(earlier)])))

\* the non-blank, non-heading lines that follow a heading of the section up
\* to the next heading, in the order of the document
RECURSIVE ContentOf(_, _)
ContentOf(key, n) ==
    IF n = 0 THEN << >>
    ELSE LET line == strip_line(fn_args.lines[n])
         IN  IF line # << >> /\ ~ IsHeadingLine(n) /\ SectionBefore(n) = key
             THEN Append(ContentOf(key, n - 1), line)
             ELSE ContentOf(key, n - 1)

SegmentReturned == fn_result.returned # None

SectionsAsStated ==
    SegmentReturned =>
        \A k \in 1..Len(section_keys) :
            LET key == section_keys[k]
                content == ContentOf(key, Len(fn_args.lines))
            IN  IF content = << >> THEN key \notin DOMAIN fn_result.returned
                ELSE /\ key \in DOMAIN fn_result.returned
                     /\ fn_result.returned[key] = content

\* a step that changes the section pointer handles a heading line
PointerChangesAtHeading ==
    fn_result'.current_key # fn_result.current_key
        => (fn_result'.i = fn_result.i + 1 /\ IsHeadingLine(fn_result'.i))

\* C24: each section maps to the non-blank, non-heading lines that follow a
\* heading of that section up to the next heading, in original order; lines
\* before the first heading are in no section; a section without content
\* lines is absent; and the section pointer only changes at heading lines
C24_SectionsOfDocument == [] SectionsAsStated /\ [][PointerChangesAtHeading]_vars

\* a document with a line before the first heading, a heading and a content
\* line: only the content line is returned, of the one section
C24_Witness ==
    /\ SegmentReturned
    /\ fn_args.lines = << << "bsc physics" >>, << " ", "SKILLS", ":", " " >>,
                          << "python sql" >> >>
    /\ DOMAIN fn_result.returned = {"skills"}
    /\ fn_result.returned["skills"] = << << "python sql" >> >>


\* ---------------------------------------------------------------------
\* NLPService.extract_job_requirements, one loop iteration per step, on
\* lines made of pieces of text as above

\* len(piece.split())
piece_words(piece) ==
    IF piece \in {":", ".", " "} THEN 0
    ELSE IF piece \in {"-", "- ", "1. ", "Requirements", "Python", "python", "SQL"} THEN 1
    ELSE IF piece \in {"About us", "Key qualifications"} THEN 2
    ELSE 7

RECURSIVE line_words(_)
line_words(line) ==
    IF line = << >> THEN 0 ELSE piece_words(Head(line)) + line_words(Tail(line))

\* pieces in which one of heading_triggers occurs (after lower())
trigger_pieces ==
    {"Requirements", "Key qualifications", "We list every requirement of the role below"}

\* any(keyword in normalized_line for keyword in heading_triggers)
HasTrigger(line) == \E k \in 1..Len(line) : line[k] \in trigger_pieces

\* stripped.endswith(':') and len(stripped.split()) <= 6
is_heading(stripped) ==
    /\ stripped # << >>
    /\ stripped[Len(stripped)] = ":"
    /\ line_words(stripped) <= 6

\* lines 391-393: one run of bullets and the blanks after it, then one number
\* prefix, off the front ("- " is a bullet and a blank, which ends the run)
RECURSIVE strip_bullets(_)
strip_bullets(line) ==
    IF line # << >> /\ Head(line) = "-" THEN strip_bullets(Tail(line))
    ELSE IF line # << >> /\ Head(line) = "- " THEN lstrip_line(Tail(line))
    ELSE lstrip_line(line)

strip_number(line) ==
    IF line # << >> /\ Head(line) = "1. " THEN Tail(line) ELSE line

clean_line_of(stripped) == strip_line(strip_number(strip_bullets(stripped)))

\* normalize_text: lower case, punctuation to blanks, blanks collapsed
normalize_piece(piece) ==
    IF piece = "Python" THEN "python"
    ELSE IF piece = "SQL" THEN "sql"
    ELSE piece

normalize_text(line) ==
    LET NotPunctuation(piece) == piece \notin {":", ".", "-", " "}
    IN  [k \in 1..Len(SelectSeq(line, NotPunctuation)) |->
            normalize_piece(SelectSeq(line, NotPunctuation)[k])]

\* mutant of requirements_line: a colon-terminated line without a keyword
\* leaves the capture flag as it is
requirements_line_StaysOn(locals, raw_line) ==
    LET stripped == strip_line(raw_line)
        clean_line == clean_line_of(stripped)
        normalized_item == normalize_text(clean_line)
        next == [locals EXCEPT !.i = @ + 1]
    IN  IF stripped = << >> THEN next
        ELSE IF is_heading(stripped)
        THEN [next EXCEPT !.capture_block = @ \/ HasTrigger(stripped)]
        ELSE IF HasTrigger(stripped) /\ line_words(stripped) <= 6
        THEN [next EXCEPT !.capture_block = TRUE]
        ELSE IF ~ locals.capture_block THEN next
        ELSE IF clean_line = << >> THEN next
        ELSE IF normalized_item # << >> /\ normalized_item \notin locals.seen
        THEN [next EXCEPT !.requirements = Append(@, clean_line),
                          !.seen = @ \cup {normalized_item}]
        ELSE next

\* lines 368-398: the body of the loop for one line
requirements_line(locals, raw_line) ==
    LET stripped == strip_line(raw_line)
        clean_line == clean_line_of(stripped)
        normalized_item == normalize_text(clean_line)
        next == [locals EXCEPT !.i = @ + 1]
    IN  IF stripped = << >> THEN next
        ELSE IF is_heading(stripped)
        THEN [next EXCEPT !.capture_block = HasTrigger(stripped)]
        ELSE IF HasTrigger(stripped) /\ line_words(stripped) <= 6
        THEN [next EXCEPT !.capture_block = TRUE]
        ELSE IF ~ locals.capture_block THEN next
        ELSE IF clean_line = << >> THEN next
        ELSE IF normalized_item # << >> /\ normalized_item \notin locals.seen
        THEN [next EXCEPT !.requirements = Append(@, clean_line),
                          !.seen = @ \cup {normalized_item}]
        ELSE next

\* the lines of the postings
PostingLines ==
    { << " " >>,
      << "Requirements", ":" >>,
      << "About us", ":" >>,
      << "Key qualifications" >>,
      << "- ", "Python" >>,
      << "1. ", "python", "." >>,
      << "SQL" >>,
      << "-" >>,
      << "We list every requirement of the role below" >>,
      << "Our team of seven builds data tools", ":" >> }

RECURSIVE PostingsOf(_)
PostingsOf(n) ==
    IF n = 0 THEN { << >> }
    ELSE LET shorter == PostingsOf(n - 1)
         IN  shorter \cup { Append(d, l) : d \in shorter, l \in PostingLines }

RequirementsInit ==
    /\ stored_settings = DefaultSettings
    /\ client = FALSE
    /\ pc = "idle"
    /\ FreshCall
    /\ OneSettingsRow
    /\ fn_args \in [lines : PostingsOf(MaxLines)]
    /\ fn_result = [i |-> 0, capture_block |-> FALSE, requirements |-> << >>,
                    seen |-> {}, returned |-> None]

RequirementsLine ==
    /\ fn_result.returned = None
    /\ fn_result.i < Len(fn_args.lines)
    /\ fn_result' = requirements_line(fn_result, fn_args.lines[fn_result.i + 1])
    /\ UNCHANGED << fn_args, table_vars, store_vars, call_vars >>

RequirementsReturn ==
    /\ fn_result.returned = None
    /\ fn_result.i = Len(fn_args.lines)
    /\ fn_result' = [fn_result EXCEPT
                         !.returned = [t |-> "list", v |-> fn_result.requirements]]
    /\ UNCHANGED << fn_args, table_vars, store_vars, call_vars >>

RequirementsNext == RequirementsLine \/ RequirementsReturn

RequirementsSpec == RequirementsInit /\ [][RequirementsNext]_vars

PostingLine(k) == strip_line(fn_args.lines[k])

\* a colon-terminated line of at most 6 words, or a line of at most 6 words
\* with a requirement-type keyword
HeadingLike(k) ==
    /\ PostingLine(k) # << >>
    /\ \/ PostingLine(k)[Len(PostingLine(k))] = ":" /\ line_words(PostingLine(k)) <= 6
       \/ HasTrigger(PostingLine(k)) /\ line_words(PostingLine(k)) <= 6

\* capture after line n: the most recent heading-like line had a keyword
CaptureAfter(n) ==
    LET earlier == { h \in 1..n : HeadingLike(h) }
    IN  earlier # {} /\ HasTrigger(PostingLine(SetMax(earlier)))

\* the captured lines among the first n, prefix stripped, each once by its
\* normalized form, in first-seen order
RECURSIVE CapturedLines(_)
CapturedLines(n) ==
    IF n = 0 THEN << >>
    ELSE LET before == CapturedLines(n - 1)
             clean == clean_line_of(PostingLine(n))
             listed == { normalize_text(before[k]) : k \in 1..Len(before) }
         IN  IF /\ ~ HeadingLike(n)
                /\ CaptureAfter(n - 1)
                /\ normalize_text(clean) # << >>
                /\ normalize_text(clean) \notin listed
             THEN Append(before, clean)
             ELSE before

\* C25: a line is recorded only while capture is on, that is only if the
\* most recent heading-like line before it had a requirement-type keyword; a
\* colon-terminated line of at most 6 words without one turns capture off;
\* heading-like lines are never recorded; the output lists each captured
\* line, prefix stripped, once, in first-seen order, no two entries equal
\* after normalization
C25_CapturedRequirements ==
    /\ fn_result.capture_block = CaptureAfter(fn_result.i)
    /\ fn_result.requirements = CapturedLines(fn_result.i)
    /\ \A k \in 1..fn_result.i :
          (is_heading(PostingLine(k)) /\ ~ HasTrigger(PostingLine(k)))
              => ~ CaptureAfter(k)
    /\ \A a, b \in 1..Len(fn_result.requirements) :
          normalize_text(fn_result.requirements[a])
             = normalize_text(fn_result.requirements[b]) => a = b
    /\ fn_result.returned # None
          => fn_result.returned.v = CapturedLines(Len(fn_args.lines))

\* a posting whose second requirement repeats the first in another spelling
C25_Witness ==
    /\ fn_result.returned = [t |-> "list", v |-> << << "Python" >> >>]
    /\ fn_args.lines = << << "Requirements", ":" >>, << "- ", "Python" >>,
                          << "1. ", "python", "." >> >>


\* ---------------------------------------------------------------------
\* the scoring call again (specification Spec)

\* C27: the reason "AI reviewer confirmed the role aligns with your profile."
\* is reported only when a correction of the reviewer was received and
\* cleared the mismatch; when the gate fired and was cleared by the overlap
\* override alone, with no correction, the reason is the override's
C27_AlignedReasonNeedsReviewer ==
    Returned =>
        /\ result.breakdown_details.profession_reason = aligned_reason
              => (Corrected /\ initial_profession_flagged
                    /\ result.profession_match_flag)
        /\ (initial_profession_flagged /\ OverrideOccurred /\ ~ Corrected)
              => result.breakdown_details.profession_reason = override_reason


SkillsScored == pc \in {"experience", "composite", "reviewer", "waiting", "done", "raised"}

\* the posting had no extracted skills: nothing matched and nothing missing
NoPostingSkills == Len(skills_breakdown.matched) + Len(skills_breakdown.missing) = 0

\* C28: when the posting has no extracted skills the skills score is 1.0
\* but the overlap ratio is 0, so an initial profession mismatch is never
\* cleared by the overlap override and, without a correction, the final
\* score is 0.0 despite the perfect skills score
C28_NoPostingSkillsNoOverride ==
    (SkillsScored /\ NoPostingSkills) =>
        /\ skills_score = Unit
        /\ skills_breakdown.match_ratio_value = 0
        /\ ~ OverrideOccurred
        /\ initial_profession_flagged => initial_profession_mismatch
        /\ (Returned /\ initial_profession_flagged /\ ~ Corrected) =>
              /\ result.final_score = 0
              /\ result.bert_scores.skills = Unit
              /\ ~ result.profession_match_flag

\* a mismatched profession, a posting without skills, no correction
C28_Witness ==
    /\ Returned
    /\ NoPostingSkills
    /\ initial_profession_flagged
    /\ gemini_correction = None
    /\ result.final_score = 0
    /\ result.bert_scores.skills = Unit


\* C29: in every returned result suggestion_text is a non-empty string, for
\* every reviewer outcome, also for a correction without review text whose
\* suggestion is present but null or empty
C29_SuggestionIsText ==
    Returned => (result.suggestion_text.t = "str" /\ result.suggestion_text.v # "")


\* ---------------------------------------------------------------------
\* AdminSettings.save() and AdminSettings.get_settings() called side by
\* side on the table of settings rows.  A new instance has pk None (0 here).

\* the table is empty, or holds one row: id 1, or another id (the first row
\* made after an earlier one was removed)
InitialTables == { [rows |-> {}, last_id |-> 0],
                   [rows |-> {1}, last_id |-> 1],
                   [rows |-> {2}, last_id |-> 2] }

SingletonInit ==
    /\ stored_settings = DefaultSettings
    /\ client = FALSE
    /\ pc = "idle"
    /\ FreshCall
    /\ fn_args = None
    /\ fn_result = None
    /\ \E table \in InitialTables : rows = table.rows /\ last_id = table.last_id
    /\ workers = NoWorker

Others == << fn_args, fn_result, store_vars, call_vars >>

\* AdminSettings(...).save() is called on a new instance
SaveNew(w) ==
    /\ workers[w].at = "idle"
    /\ workers' = [workers EXCEPT ![w] = [at |-> "save_check", pk |-> 0]]
    /\ UNCHANGED << rows, last_id, Others >>

\* save() is called on an instance loaded from a stored row (the settings
\* form and the admin change page)
SaveLoaded(w) ==
    /\ workers[w].at = "idle"
    /\ \E id \in rows : workers' = [workers EXCEPT ![w] = [at |-> "save_check", pk |-> id]]
    /\ UNCHANGED << rows, last_id, Others >>

\* models.py line 181: if not self.pk and AdminSettings.objects.exists()
SaveCheck(w) ==
    /\ workers[w].at = "save_check"
    /\ workers' = [workers EXCEPT ![w] =
                      IF workers[w].pk = 0 /\ rows # {}
                      THEN [at |-> "idle", pk |-> 0]          \* ValueError
                      ELSE [at |-> "save_write", pk |-> workers[w].pk]]
    /\ UNCHANGED << rows, last_id, Others >>

\* models.py line 183: super().save(): an INSERT with the next id for a new
\* instance, an UPDATE of the row otherwise
SaveWrite(w) ==
    /\ workers[w].at = "save_write"
    /\ IF workers[w].pk = 0
       THEN /\ rows' = rows \cup {last_id + 1}
            /\ last_id' = last_id + 1
       ELSE UNCHANGED << rows, last_id >>
    /\ workers' = [workers EXCEPT ![w] = [at |-> "idle", pk |-> 0]]
    /\ UNCHANGED Others

\* get_settings(): get_or_create(id=1) looks the row up
GetLookup(w) ==
    /\ workers[w].at = "idle"
    /\ workers' = [workers EXCEPT ![w] =
                      IF 1 \in rows THEN [at |-> "idle", pk |-> 0]
                      ELSE [at |-> "get_create", pk |-> 1]]
    /\ UNCHANGED << rows, last_id, Others >>

\* get_or_create(id=1) creates the row: save() with pk 1 set skips the check
\* of line 181; if another call made row 1 meanwhile the INSERT fails on the
\* primary key and the row is fetched
GetCreate(w) ==
    /\ workers[w].at = "get_create"
    /\ rows' = rows \cup {1}
    /\ last_id' = Max(last_id, 1)
    /\ workers' = [workers EXCEPT ![w] = [at |-> "idle", pk |-> 0]]
    /\ UNCHANGED Others

SingletonNext ==
    \E w \in Workers :
        \/ SaveNew(w)
        \/ SaveLoaded(w)
        \/ SaveCheck(w)
        \/ SaveWrite(w)
        \/ GetLookup(w)
        \/ GetCreate(w)

SingletonSpec == SingletonInit /\ [][SingletonNext]_vars

\* C30: after any sequence and interleaving of save() and get_settings()
\* calls at most one AdminSettings row is stored
C30_AtMostOneRow == Cardinality(rows) <= 1

====
